---------------------------- MODULE Spec2Model ----------------------------
(***************************************************************************)
(* A model of the Zora and Polymarket agent-runtime plugins: credential    *)
(* and client bootstrap, the action registry built at plugin load, the     *)
(* metadata-URI resolution of CREATE_COIN and the three action handlers.   *)
(*                                                                         *)
(* JavaScript values are modelled as follows.                              *)
(*   string | undefined   a sequence of length at most one: <<>> is        *)
(*                        undefined, <<s>> is the string s                 *)
(*   a thrown value       a record [isError, message]: an Error with its   *)
(*                        message, or a non-Error value with its String()   *)
(*   an await             one step of the handler's program counter         *)
(***************************************************************************)
EXTENDS Integers, Sequences, FiniteSets, TLC

VARIABLES
    env,        \* process.env: configuration name -> string | undefined
    zoraBoot,   \* outcome of the last direct getZoraClients() call
    zoraLegacy, \* outcome of the last call of the older getZoraClients()
    zoraLoad,   \* initializeActions() of the Zora plugin (index.ts)
    zoraProv,   \* what zoraProvider.get() last returned (or raised)
    polyBoot,   \* outcome of the last direct getPolymarketClient() call
    polyLoad,   \* initializeActions() of the Polymarket plugin
    polyProv,   \* what walletProvider.get() last returned (or raised)
    polyTools,  \* what getOnChainTools did in that getPolymarketClient() call
    uriCall,    \* the frame of a direct ensureMetadataUri() call
    h           \* the handler invocations, by invocation id

vars == <<env, zoraBoot, zoraLegacy, zoraLoad, zoraProv,
          polyBoot, polyLoad, polyProv, polyTools, uriCall, h>>

-----------------------------------------------------------------------------
(* Strings *)

None == <<>>
Some(s) == <<s>>

\* !v for v : string | undefined
Falsy(v) == IF v = None THEN TRUE ELSE v[1] = ""

\* v || d for v : string | undefined
OrElse(v, d) == IF Falsy(v) THEN d ELSE v[1]

UpperLetters == "ABCDEFGHIJKLMNOPQRSTUVWXYZ"
LowerLetters == "abcdefghijklmnopqrstuvwxyz"

CharAt(s, i) == SubSeq(s, i, i)

LowerChar(c) ==
    IF \E i \in 1..Len(UpperLetters) : CharAt(UpperLetters, i) = c
    THEN CharAt(LowerLetters,
                CHOOSE i \in 1..Len(UpperLetters) : CharAt(UpperLetters, i) = c)
    ELSE c

RECURSIVE toLowerCase(_)
toLowerCase(s) ==
    IF Len(s) = 0 THEN ""
    ELSE LowerChar(CharAt(s, 1)) \o toLowerCase(SubSeq(s, 2, Len(s)))

includes(s, sub) ==
    \E i \in 1..(Len(s) - Len(sub) + 1) : SubSeq(s, i, i + Len(sub) - 1) = sub

startsWith(s, p) == Len(s) >= Len(p) /\ SubSeq(s, 1, Len(p)) = p

WhiteSpace == {" ", "\t", "\n"}

RECURSIVE trimStart(_)
trimStart(s) ==
    IF Len(s) > 0 /\ CharAt(s, 1) \in WhiteSpace
    THEN trimStart(SubSeq(s, 2, Len(s)))
    ELSE s

RECURSIVE trimEnd(_)
trimEnd(s) ==
    IF Len(s) > 0 /\ CharAt(s, Len(s)) \in WhiteSpace
    THEN trimEnd(SubSeq(s, 1, Len(s) - 1))
    ELSE s

trim(s) == trimEnd(trimStart(s))

-----------------------------------------------------------------------------
(* Thrown values and call outcomes *)

Error(msg) == [isError |-> TRUE, message |-> msg]
NonError(str) == [isError |-> FALSE, message |-> str]

\* An outcome of a call: it returned `value`, or it threw `error`; `calls`
\* lists the constructors and external services the call went through.
Returned(v, calls) == [threw |-> FALSE, error |-> None, value |-> Some(v), calls |-> calls]
Threw(err, calls) == [threw |-> TRUE, error |-> Some(err), value |-> None, calls |-> calls]

-----------------------------------------------------------------------------
(* Configuration *)

ZoraNames == {"ZORA_RPC_URL", "ZORA_PRIVATE_KEY", "ZORA_CHAIN",
              "PINATA_JWT", "PINATA_DEFAULT_IMAGE_CID"}
PolyApiNames == <<"POLYMARKET_API_KEY", "POLYMARKET_SECRET", "POLYMARKET_PASSPHRASE">>
PolyWalletNames == <<"WALLET_PRIVATE_KEY", "RPC_PROVIDER_URL">>
Range(seq) == {seq[i] : i \in DOMAIN seq}
PolyNames == Range(PolyApiNames) \cup Range(PolyWalletNames)
EnvNames == ZoraNames \cup PolyNames

\* Configuration values the specifications draw from.
RpcUrlValues == {None, Some(""), Some("https://mainnet.base.org"),
                 Some("https://sepolia.base.org"), Some("https://rpc.example/84532"),
                 Some("https://Base-SEPOLIA.example")}
KeyValues == {None, Some(""), Some("0x0a1B"), Some("not-a-key")}
ChainValues == {None, Some(""), Some("base"), Some("mainnet"), Some("base-sepolia"),
                Some("Base-Sepolia"), Some("basesepolia"), Some("sepolia")}
SecretValues == {None, Some(""), Some("s3cret")}

Unset == [n \in EnvNames |-> None]

-----------------------------------------------------------------------------
(* viem *)

base == [name |-> "Base", id |-> 8453]
baseSepolia == [name |-> "Base Sepolia", id |-> 84532]
polygon == [name |-> "Polygon", id |-> 137]

HexDigits == {CharAt("0123456789abcdefABCDEF", i) : i \in 1..22}

\* privateKeyToAccount accepts a 0x-prefixed hex string and throws on any
\* other; the address is a function of the key.
isHex(key) ==
    /\ startsWith(key, "0x")
    /\ Len(key) > 2
    /\ \A i \in 3..Len(key) : CharAt(key, i) \in HexDigits

addressOf(key) == "address-of:" \o toLowerCase(key)

privateKeyToAccount(key) == [address |-> addressOf(key), source |-> "privateKey"]

InvalidKeyError == Error("invalid private key, expected hex")

http(url) == [type |-> "http", url |-> url]

createPublicClient(chain, transport) == [chain |-> chain, transport |-> transport]

createWalletClient(account, chain, transport) ==
    [account |-> account, chain |-> chain, transport |-> transport]

-----------------------------------------------------------------------------
(* Zora: provider.ts *)

ZoraMissingMessage ==
    "Missing required Zora credentials. Please set ZORA_RPC_URL and ZORA_PRIVATE_KEY environment variables."

\* if (!rpcUrl || !privateKey)
ZoraCredentialsMissing(rpcUrl, privateKey) == Falsy(rpcUrl) \/ Falsy(privateKey)

SepoliaChainNames == {"base-sepolia", "basesepolia", "sepolia"}

isSepoliaEnv(zoraChainEnv) == zoraChainEnv \in SepoliaChainNames

isSepoliaRpc(rpcUrl) ==
    LET rpcUrlLower == toLowerCase(rpcUrl)
    IN  includes(rpcUrlLower, "sepolia") \/ includes(rpcUrlLower, "84532")

resolveChain_Exact(zoraChain, rpcUrl) ==
    IF zoraChain = Some("base-sepolia") \/ isSepoliaRpc(rpcUrl) THEN baseSepolia ELSE base

\* const chain = isSepoliaEnv || isSepoliaRpc ? baseSepolia : base
resolveChain(zoraChain, rpcUrl) ==
    LET zoraChainEnv == toLowerCase(OrElse(zoraChain, ""))
    IN  IF isSepoliaEnv(zoraChainEnv) \/ isSepoliaRpc(rpcUrl) THEN baseSepolia ELSE base

getZoraClients_SplitEndpoints(e) ==
    LET rpcUrl == e["ZORA_RPC_URL"]
        privateKey == e["ZORA_PRIVATE_KEY"]
    IN  IF ZoraCredentialsMissing(rpcUrl, privateKey)
        THEN Threw(Error(ZoraMissingMessage), <<>>)
        ELSE IF ~isHex(privateKey[1])
        THEN Threw(InvalidKeyError, <<"privateKeyToAccount">>)
        ELSE LET chain == resolveChain(e["ZORA_CHAIN"], rpcUrl[1])
                 account == privateKeyToAccount(privateKey[1])
             IN  Returned([publicClient |-> createPublicClient(base, http(rpcUrl[1])),
                           walletClient |-> createWalletClient(account, chain, http(rpcUrl[1])),
                           account |-> account],
                          <<"privateKeyToAccount", "createPublicClient", "createWalletClient">>)

getZoraClients(e) ==
    LET rpcUrl == e["ZORA_RPC_URL"]
        privateKey == e["ZORA_PRIVATE_KEY"]
    IN  IF ZoraCredentialsMissing(rpcUrl, privateKey)
        THEN Threw(Error(ZoraMissingMessage), <<>>)
        ELSE IF ~isHex(privateKey[1])
        THEN Threw(InvalidKeyError, <<"privateKeyToAccount">>)
        ELSE LET chain == resolveChain(e["ZORA_CHAIN"], rpcUrl[1])
                 account == privateKeyToAccount(privateKey[1])
             IN  Returned([publicClient |-> createPublicClient(chain, http(rpcUrl[1])),
                           walletClient |-> createWalletClient(account, chain, http(rpcUrl[1])),
                           account |-> account],
                          <<"privateKeyToAccount", "createPublicClient", "createWalletClient">>)

\* The older getZoraClients kept in provider.ts: always Base, and the wallet
\* client is bound to the account's address.
getZoraClientsLegacy(e) ==
    LET rpcUrl == e["ZORA_RPC_URL"]
        privateKey == e["ZORA_PRIVATE_KEY"]
    IN  IF ZoraCredentialsMissing(rpcUrl, privateKey)
        THEN Threw(Error(ZoraMissingMessage), <<>>)
        ELSE IF ~isHex(privateKey[1])
        THEN Threw(InvalidKeyError, <<"privateKeyToAccount">>)
        ELSE LET account == privateKeyToAccount(privateKey[1])
             IN  Returned([publicClient |-> createPublicClient(base, http(rpcUrl[1])),
                           walletClient |-> createWalletClient(account.address, base, http(rpcUrl[1])),
                           account |-> account],
                          <<"privateKeyToAccount", "createPublicClient", "createWalletClient">>)

zoraProviderGet_NoCatch(e) ==
    LET clients == getZoraClients(e)
    IN  IF clients.threw THEN clients
        ELSE Returned("Zora Wallet Address: " \o clients.value[1].account.address, clients.calls)

\* zoraProvider.get: the string it returns
zoraProviderGet(e) ==
    LET clients == getZoraClients(e)
    IN  IF clients.threw
        THEN Returned("Error initializing Zora wallet: " \o clients.error[1].message, clients.calls)
        ELSE Returned("Zora Wallet Address: " \o clients.value[1].account.address, clients.calls)

-----------------------------------------------------------------------------
(* Zora: actions.ts getZoraActions, index.ts initializeActions *)

getZoraActions == <<"CREATE_COIN", "TRADE_COIN">>

zoraInitializeActions_KeyUnchecked(e, built) ==
    IF Falsy(e["ZORA_RPC_URL"])
    THEN Returned(<<>>, <<"console.warn">>)
    ELSE Returned(getZoraActions, <<"getZoraActions">>)

zoraInitializeActions_NoCatch(e, built) ==
    IF Falsy(e["ZORA_RPC_URL"]) \/ Falsy(e["ZORA_PRIVATE_KEY"])
    THEN Returned(<<>>, <<"console.warn">>)
    ELSE IF built.threw THEN Threw(built.error[1], <<"getZoraActions">>)
    ELSE Returned(built.value[1], <<"getZoraActions">>)

\* initializeActions.  built is what awaiting getZoraActions does: in this
\* repository it resolves to the two actions; the catch block is what
\* initializeActions does should it reject.
zoraInitializeActions(e, built) ==
    LET rpcUrl == e["ZORA_RPC_URL"]
        privateKey == e["ZORA_PRIVATE_KEY"]
    IN  IF Falsy(rpcUrl) \/ Falsy(privateKey)
        THEN Returned(<<>>, <<"console.warn">>)
        ELSE IF built.threw
        THEN Returned(<<>>, <<"getZoraActions", "console.error">>)
        ELSE Returned(built.value[1], <<"getZoraActions">>)

-----------------------------------------------------------------------------
(* Polymarket: provider.ts *)

PolyApiMissingMessage ==
    "Missing required Polymarket API credentials. Please set POLYMARKET_API_KEY, POLYMARKET_SECRET, and POLYMARKET_PASSPHRASE environment variables."

PolyWalletMissingMessage ==
    "Missing required wallet configuration. Please set WALLET_PRIVATE_KEY and RPC_PROVIDER_URL environment variables."

PolyApiMissing_KeyOnly(e) == Falsy(e["POLYMARKET_API_KEY"])

\* if (!apiKey || !apiSecret || !apiPassphrase)
PolyApiMissing(e) ==
    \/ Falsy(e["POLYMARKET_API_KEY"])
    \/ Falsy(e["POLYMARKET_SECRET"])
    \/ Falsy(e["POLYMARKET_PASSPHRASE"])

\* if (!walletPrivateKey || !rpcProviderUrl)
PolyWalletMissing(e) == Falsy(e["WALLET_PRIVATE_KEY"]) \/ Falsy(e["RPC_PROVIDER_URL"])

\* error.message of a caught value: undefined on a value that is no Error
messageOf(err) == IF err.isError THEN Some(err.message) ELSE None

WrapPolymarket_Bare(err) == Error(OrElse(messageOf(err), "Unknown error"))

\* throw new Error(`Failed to initialize Polymarket client: ${error.message || 'Unknown error'}`)
WrapPolymarket(err) ==
    Error("Failed to initialize Polymarket client: " \o OrElse(messageOf(err), "Unknown error"))

\* A tool of the list getOnChainTools resolves to: its name (or none) and the
\* entry points it has.
Tool(name, hasExecute, hasCall) == [name |-> name, execute |-> hasExecute, call |-> hasCall]

\* The try block of getPolymarketClient: account, wallet client, tool list.
\* onChainTools is what getOnChainTools does when awaited: it resolves to a
\* tool list or rejects.
buildPolymarketClient(e, onChainTools) ==
    IF ~isHex(e["WALLET_PRIVATE_KEY"][1])
    THEN Threw(WrapPolymarket(InvalidKeyError), <<"privateKeyToAccount">>)
    ELSE LET account == privateKeyToAccount(e["WALLET_PRIVATE_KEY"][1])
             walletClient == createWalletClient(account, polygon, http(e["RPC_PROVIDER_URL"][1]))
             calls == <<"privateKeyToAccount", "createWalletClient", "getOnChainTools">>
         IN  IF onChainTools.threw
             THEN Threw(WrapPolymarket(onChainTools.error[1]), calls)
             ELSE Returned([tools |-> onChainTools.value[1],
                            walletClient |-> walletClient,
                            account |-> account], calls)

getPolymarketClient_WalletFirst(e, onChainTools) ==
    IF PolyWalletMissing(e) THEN Threw(Error(PolyWalletMissingMessage), <<>>)
    ELSE IF PolyApiMissing(e) THEN Threw(Error(PolyApiMissingMessage), <<>>)
    ELSE buildPolymarketClient(e, onChainTools)

getPolymarketClient(e, onChainTools) ==
    IF PolyApiMissing(e) THEN Threw(Error(PolyApiMissingMessage), <<>>)
    ELSE IF PolyWalletMissing(e) THEN Threw(Error(PolyWalletMissingMessage), <<>>)
    ELSE buildPolymarketClient(e, onChainTools)

\* walletProvider.get: the string it returns
walletProviderGet(e, onChainTools) ==
    LET client == getPolymarketClient(e, onChainTools)
    IN  IF client.threw
        THEN Returned("Error initializing Polymarket wallet: " \o client.error[1].message, client.calls)
        ELSE Returned("Polymarket Wallet Address: " \o client.value[1].account.address, client.calls)

-----------------------------------------------------------------------------
(* Polymarket: actions.ts getPolymarketActions, index.ts initializeActions *)

getPolymarketActions == <<"GET_POLYMARKET_EVENTS">>

polymarketInitializeActions_NoWalletCheck(e, built) ==
    IF PolyApiMissing(e) THEN Returned(<<>>, <<"console.warn">>)
    ELSE IF built.threw
    THEN Returned(<<>>, <<"getPolymarketActions", "console.error">>)
    ELSE Returned(built.value[1], <<"getPolymarketActions">>)

\* initializeActions.  built is what awaiting getPolymarketActions does.
polymarketInitializeActions(e, built) ==
    IF PolyApiMissing(e) THEN Returned(<<>>, <<"console.warn">>)
    ELSE IF PolyWalletMissing(e) THEN Returned(<<>>, <<"console.warn">>)
    ELSE IF built.threw
    THEN Returned(<<>>, <<"getPolymarketActions", "console.error">>)
    ELSE Returned(built.value[1], <<"getPolymarketActions">>)

-----------------------------------------------------------------------------
(* The tool lists and outcomes of getOnChainTools the specifications draw from *)

ToolLists == {
    <<>>,
    <<Tool(Some("get_balance"), TRUE, FALSE),
      Tool(Some("Get_Polymarket_EVENTS"), TRUE, TRUE),
      Tool(Some("list_markets"), FALSE, TRUE)>>,
    <<Tool(None, TRUE, FALSE), Tool(Some("transfer"), TRUE, FALSE)>>,
    <<Tool(None, TRUE, TRUE), Tool(Some("MarketInfo"), FALSE, TRUE)>>,
    <<Tool(Some("events"), FALSE, FALSE)>> }

StepErrors == {Error("boom"), Error(""), NonError("rate limited")}

OnChainToolsOutcomes ==
    {Returned(l, <<>>) : l \in ToolLists} \cup {Threw(x, <<>>) : x \in StepErrors}

-----------------------------------------------------------------------------
(* Direct calls of the bootstrap functions, the providers and plugin load *)

CallGetZoraClients ==
    /\ zoraBoot = None
    /\ zoraBoot' = Some(getZoraClients(env))
    /\ UNCHANGED <<env, zoraLegacy, zoraLoad, zoraProv, polyBoot, polyLoad, polyProv, uriCall, h, polyTools>>

CallGetZoraClientsLegacy ==
    /\ zoraLegacy = None
    /\ zoraLegacy' = Some(getZoraClientsLegacy(env))
    /\ UNCHANGED <<env, zoraBoot, zoraLoad, zoraProv, polyBoot, polyLoad, polyProv, uriCall, h, polyTools>>

LoadZoraPlugin_Recomputed ==
    /\ zoraLoad' = Some(zoraInitializeActions(env, Returned(getZoraActions, <<>>)))
    /\ zoraLoad' # zoraLoad
    /\ UNCHANGED <<env, zoraBoot, zoraLegacy, zoraProv, polyBoot, polyLoad, polyProv, uriCall, h, polyTools>>

LoadZoraPlugin ==
    /\ zoraLoad = None
    /\ zoraLoad' = Some(zoraInitializeActions(env, Returned(getZoraActions, <<>>)))
    /\ UNCHANGED <<env, zoraBoot, zoraLegacy, zoraProv, polyBoot, polyLoad, polyProv, uriCall, h, polyTools>>

\* Plugin load in a run where building the action list rejects
LoadZoraPluginBuildThrows ==
    /\ zoraLoad = None
    /\ \E x \in StepErrors : zoraLoad' = Some(zoraInitializeActions(env, Threw(x, <<>>)))
    /\ UNCHANGED <<env, zoraBoot, zoraLegacy, zoraProv, polyBoot, polyLoad, polyProv, uriCall, h, polyTools>>

CallZoraProviderGet ==
    /\ zoraProv = None
    /\ zoraProv' = Some(zoraProviderGet(env))
    /\ UNCHANGED <<env, zoraBoot, zoraLegacy, zoraLoad, polyBoot, polyLoad, polyProv, uriCall, h, polyTools>>

CallGetPolymarketClient ==
    /\ polyBoot = None
    /\ \E t \in OnChainToolsOutcomes :
         LET client == getPolymarketClient(env, t)
         IN  /\ polyBoot' = Some(client)
             /\ polyTools' = IF "getOnChainTools" \in Range(client.calls) THEN Some(t) ELSE None
    /\ UNCHANGED <<env, zoraBoot, zoraLegacy, zoraLoad, zoraProv, polyLoad, polyProv, uriCall, h>>

LoadPolymarketPlugin ==
    /\ polyLoad = None
    /\ polyLoad' = Some(polymarketInitializeActions(env, Returned(getPolymarketActions, <<>>)))
    /\ UNCHANGED <<env, zoraBoot, zoraLegacy, zoraLoad, zoraProv, polyBoot, polyProv, uriCall, h, polyTools>>

LoadPolymarketPluginBuildThrows ==
    /\ polyLoad = None
    /\ \E x \in StepErrors : polyLoad' = Some(polymarketInitializeActions(env, Threw(x, <<>>)))
    /\ UNCHANGED <<env, zoraBoot, zoraLegacy, zoraLoad, zoraProv, polyBoot, polyProv, uriCall, h, polyTools>>

CallWalletProviderGet ==
    /\ polyProv = None
    /\ \E t \in OnChainToolsOutcomes : polyProv' = Some(walletProviderGet(env, t))
    /\ UNCHANGED <<env, zoraBoot, zoraLegacy, zoraLoad, zoraProv, polyBoot, polyLoad, uriCall, h, polyTools>>

-----------------------------------------------------------------------------
(* Zora: actions.ts ensureMetadataUri *)

\* x?.trim() for x : string | undefined
trimOpt(v) == IF v = None THEN None ELSE Some(trim(v[1]))

UriSchemes == {"ipfs://", "http://", "https://"}

\* provided && (provided.startsWith('ipfs://') || ... 'http://' || ... 'https://')
looksLikeUri(provided) ==
    ~Falsy(provided) /\ \E p \in UriSchemes : startsWith(provided[1], p)

MissingPinataMessage ==
    "Missing PINATA_JWT. Cannot auto-generate metadata URI. Provide a valid uri or set PINATA_JWT to enable auto-pinning."

PinataEndpoint == "https://api.pinata.cloud/pinning/pinJSONToIPFS"

\* The metadata document that is pinned
pinMetadata(e, params) ==
    LET defaultImageCid == e["PINATA_DEFAULT_IMAGE_CID"]
        trimmedImage == trimOpt(params.image)
        image == IF ~Falsy(trimmedImage) THEN trimmedImage
                 ELSE IF ~Falsy(defaultImageCid) THEN Some("ipfs://" \o defaultImageCid[1])
                 ELSE None
        description == OrElse(trimOpt(params.description), "Creator coin for " \o params.name)
    IN  [name |-> params.name, description |-> description, image |-> image]

pinRequest(e, params) ==
    [url |-> PinataEndpoint,
     method |-> "POST",
     authorization |-> "Bearer " \o e["PINATA_JWT"][1],
     pinataContent |-> pinMetadata(e, params),
     pinataMetadataName |-> "zora-coin-" \o params.symbol \o "-<now>"]

ensureMetadataUriBegin_Untrimmed(e, params) ==
    IF looksLikeUri(trimOpt(params.uri))
    THEN [kind |-> "return", value |-> Some(params.uri[1]), error |-> None, request |-> None]
    ELSE IF Falsy(e["PINATA_JWT"])
    THEN [kind |-> "throw", value |-> None, error |-> Some(Error(MissingPinataMessage)), request |-> None]
    ELSE [kind |-> "fetch", value |-> None, error |-> None, request |-> Some(pinRequest(e, params))]

ensureMetadataUriBegin_FetchFirst(e, params) ==
    IF looksLikeUri(trimOpt(params.uri))
    THEN [kind |-> "return", value |-> trimOpt(params.uri), error |-> None, request |-> None]
    ELSE [kind |-> "fetch", value |-> None, error |-> None,
          request |-> Some(pinRequest([e EXCEPT !["PINATA_JWT"] = Some(OrElse(@, ""))], params))]

\* ensureMetadataUri up to its first await: it returns the supplied URI,
\* throws for want of a credential, or sends the pin request.
ensureMetadataUriBegin(e, params) ==
    LET provided == trimOpt(params.uri)
    IN  IF looksLikeUri(provided)
        THEN [kind |-> "return", value |-> provided, error |-> None, request |-> None]
        ELSE IF Falsy(e["PINATA_JWT"])
        THEN [kind |-> "throw", value |-> None, error |-> Some(Error(MissingPinataMessage)), request |-> None]
        ELSE [kind |-> "fetch", value |-> None, error |-> None, request |-> Some(pinRequest(e, params))]

\* What runtime.fetch does when awaited: it rejects, or resolves to a
\* response; text is undefined when response.text() rejects, json is
\* undefined when response.json() rejects.
FetchRejected(err) ==
    [rejected |-> TRUE, error |-> Some(err), ok |-> FALSE, status |-> "", statusText |-> "",
     text |-> None, json |-> None]
HttpFailure(status, statusText, text) ==
    [rejected |-> FALSE, error |-> None, ok |-> FALSE, status |-> status, statusText |-> statusText,
     text |-> text, json |-> None]
HttpSuccess(json) ==
    [rejected |-> FALSE, error |-> None, ok |-> TRUE, status |-> "200", statusText |-> "OK",
     text |-> None, json |-> json]

PinResponses == {
    FetchRejected(Error("network down")),
    HttpFailure("401", "Unauthorized", Some("bad token")),
    HttpFailure("500", "Internal Server Error", None),
    HttpSuccess(Some([IpfsHash |-> Some("QmHash1")])),
    HttpSuccess(Some([IpfsHash |-> Some("")])),
    HttpSuccess(Some([IpfsHash |-> None])),
    HttpSuccess(None) }

JsonSyntaxError == Error("Unexpected token < in JSON")

ensureMetadataUriFinish_BareHash(response) ==
    IF response.rejected \/ ~response.ok \/ response.json = None
    THEN Threw(Error("pin failed"), <<>>)
    ELSE Returned(OrElse(response.json[1].IpfsHash, ""), <<>>)

\* ensureMetadataUri from the response of the pin request on
ensureMetadataUriFinish(response) ==
    IF response.rejected THEN Threw(response.error[1], <<>>)
    ELSE IF ~response.ok
    THEN Threw(Error("Pinata pinJSONToIPFS failed: " \o response.status \o " "
                     \o response.statusText \o " " \o OrElse(response.text, "")), <<>>)
    ELSE IF response.json = None THEN Threw(JsonSyntaxError, <<>>)
    ELSE IF Falsy(response.json[1].IpfsHash) THEN Threw(Error("Pinata response missing IpfsHash"), <<>>)
    ELSE Returned("ipfs://" \o response.json[1].IpfsHash[1], <<>>)

\* The parameters a direct call is made with
UriValues == {None, Some(""), Some("  "), Some("ipfs://bafy"), Some("http://a.io/m.json"),
              Some("https://a.io/m.json"), Some("https://a.io/m.json "), Some(" ipfs://bafy"),
              Some("ftp://a.io/m"), Some("HTTPS://A.IO/M"), Some("my coin")}
ImageValues == {None, Some(" "), Some("ipfs://img")}
DescriptionValues == {None, Some("A coin")}

UriParams ==
    [name : {"My Coin"}, symbol : {"MAC"}, uri : UriValues,
     image : ImageValues, description : DescriptionValues]

UriIdle == [pc |-> "idle", params |-> None, requests |-> <<>>, response |-> None, outcome |-> None]

\* ensureMetadataUri(runtime, params) is called and runs to its first await
UriBegin ==
    /\ uriCall.pc = "idle"
    /\ \E params \in UriParams :
         LET b == ensureMetadataUriBegin(env, params)
         IN  uriCall' =
               CASE b.kind = "return" ->
                      [pc |-> "done", params |-> Some(params), requests |-> <<>>,
                       response |-> None, outcome |-> Some(Returned(b.value[1], <<>>))]
                 [] b.kind = "throw" ->
                      [pc |-> "done", params |-> Some(params), requests |-> <<>>,
                       response |-> None, outcome |-> Some(Threw(b.error[1], <<>>))]
                 [] b.kind = "fetch" ->
                      [pc |-> "fetch", params |-> Some(params), requests |-> <<b.request[1]>>,
                       response |-> None, outcome |-> None]
    /\ UNCHANGED <<env, zoraBoot, zoraLegacy, zoraLoad, zoraProv, polyBoot, polyLoad, polyProv, h, polyTools>>

\* the pin request settles and ensureMetadataUri runs to its end
UriFinish ==
    /\ uriCall.pc = "fetch"
    /\ \E response \in PinResponses :
         uriCall' = [uriCall EXCEPT !.pc = "done",
                                    !.response = Some(response),
                                    !.outcome = Some(ensureMetadataUriFinish(response))]
    /\ UNCHANGED <<env, zoraBoot, zoraLegacy, zoraLoad, zoraProv, polyBoot, polyLoad, polyProv, h, polyTools>>

-----------------------------------------------------------------------------
(* The action handlers: actions.ts (Zora), the Polymarket getPolymarketActions *)

ActionNames == {"CREATE_COIN", "TRADE_COIN", "GET_POLYMARKET_EVENTS"}

\* The text the catch block puts before the error message
ErrorPrefix(action) ==
    CASE action = "CREATE_COIN" -> "Error creating coin: "
      [] action = "TRADE_COIN" -> "Error trading coin: "
      [] action = "GET_POLYMARKET_EVENTS" -> "Error executing GET_POLYMARKET_EVENTS: "

CallbackError == Error("callback failed")

\* One invocation of a handler.  pc is the await the invocation stands at.
Idle ==
    [pc |-> "idle", action |-> "", hasCallback |-> FALSE, stateGiven |-> FALSE,
     clients |-> None,
     extracted |-> None,   \* the object the model produced, before the schema
     params |-> None, resolvedUri |-> None, result |-> None,
     prompt |-> None,      \* the serialized result put into the response prompt
     trace |-> <<>>,       \* the external calls made, in order
     pinRequests |-> <<>>, \* the requests sent to the pinning service
     sdkCalls |-> <<>>,    \* the SDK and tool calls made, with their arguments
     raisedAt |-> <<>>,    \* the steps at which an exception was raised
     cb |-> <<>>,          \* the payloads the callback was invoked with
     ret |-> None,         \* the boolean the handler resolved to
     escaped |-> None]     \* the exception the handler rejected with

errorPayload_TextAsError(action, err) ==
    [text |-> ErrorPrefix(action) \o err.message,
     content |-> [error |-> ErrorPrefix(action) \o err.message]]

\* errorMessage = error instanceof Error ? error.message : String(error)
errorPayload(action, err) ==
    [text |-> ErrorPrefix(action) \o err.message, content |-> [error |-> err.message]]

catchBlock_Rethrow(r, step, err, cbRaises) ==
    [r EXCEPT !.pc = "done", !.raisedAt = Append(@, step), !.escaped = Some(err)]

\* The catch block (handleError in the Polymarket plugin): an exception
\* raised at `step` is reported through the callback, if there is one, and
\* the handler returns false.  cbRaises: the callback raises when invoked.
catchBlock(r, step, err, cbRaises) ==
    LET caught == [r EXCEPT !.pc = "done", !.raisedAt = Append(@, step)]
    IN  IF ~r.hasCallback THEN [caught EXCEPT !.ret = Some(FALSE)]
        ELSE IF cbRaises
        THEN [caught EXCEPT !.cb = Append(@, errorPayload(r.action, err)),
                            !.raisedAt = Append(@, "errorCallback"),
                            !.escaped = Some(CallbackError)]
        ELSE [caught EXCEPT !.cb = Append(@, errorPayload(r.action, err)),
                            !.ret = Some(FALSE)]

\* The configurations handlers run under
HandlerEnvs == {
    [Unset EXCEPT !["ZORA_RPC_URL"] = Some("https://mainnet.base.org"),
                  !["ZORA_PRIVATE_KEY"] = Some("0x0a1B"),
                  !["PINATA_JWT"] = Some("jwt"),
                  !["POLYMARKET_API_KEY"] = Some("s3cret"),
                  !["POLYMARKET_SECRET"] = Some("s3cret"),
                  !["POLYMARKET_PASSPHRASE"] = Some("s3cret"),
                  !["WALLET_PRIVATE_KEY"] = Some("0x0a1B"),
                  !["RPC_PROVIDER_URL"] = Some("https://polygon-rpc.com")],
    [Unset EXCEPT !["ZORA_RPC_URL"] = Some("https://sepolia.base.org"),
                  !["ZORA_PRIVATE_KEY"] = Some("0x0a1B"),
                  !["POLYMARKET_API_KEY"] = Some("s3cret"),
                  !["POLYMARKET_SECRET"] = Some("s3cret"),
                  !["POLYMARKET_PASSPHRASE"] = Some("s3cret"),
                  !["WALLET_PRIVATE_KEY"] = Some("not-a-key"),
                  !["RPC_PROVIDER_URL"] = Some("https://polygon-rpc.com")],
    [Unset EXCEPT !["ZORA_RPC_URL"] = Some("https://mainnet.base.org"),
                  !["ZORA_PRIVATE_KEY"] = Some("not-a-key"),
                  !["POLYMARKET_API_KEY"] = Some("s3cret"),
                  !["WALLET_PRIVATE_KEY"] = Some("0x0a1B")],
    Unset }

Invoke_Resetting(i) ==
    /\ h[i].pc = "idle"
    /\ \E a \in ActionNames, cbk \in BOOLEAN, st \in BOOLEAN :
         h' = [j \in DOMAIN h |->
                 IF j = i
                 THEN [Idle EXCEPT !.pc = "bootstrap", !.action = a,
                                   !.hasCallback = cbk, !.stateGiven = st]
                 ELSE Idle]
    /\ UNCHANGED <<env, zoraBoot, zoraLegacy, zoraLoad, zoraProv, polyBoot, polyLoad, polyProv, uriCall, polyTools>>

\* The host runtime invokes a handler
Invoke(i) ==
    /\ h[i].pc = "idle"
    /\ \E a \in ActionNames, cbk \in BOOLEAN, st \in BOOLEAN :
         h' = [h EXCEPT ![i] = [Idle EXCEPT !.pc = "bootstrap", !.action = a,
                                            !.hasCallback = cbk, !.stateGiven = st]]
    /\ UNCHANGED <<env, zoraBoot, zoraLegacy, zoraLoad, zoraProv, polyBoot, polyLoad, polyProv, uriCall, polyTools>>

Bootstrap_AfterState(i) ==
    /\ h[i].pc = "bootstrap"
    /\ \E t \in OnChainToolsOutcomes, cbRaises \in BOOLEAN :
         LET r == h[i]
             boot == IF r.action = "GET_POLYMARKET_EVENTS"
                     THEN getPolymarketClient(env, t)
                     ELSE getZoraClients(env)
             called == [r EXCEPT !.trace = @ \o <<"composeState", "getClients">>]
         IN  h' = [h EXCEPT ![i] =
                     IF boot.threw
                     THEN catchBlock(called, "bootstrap", boot.error[1], cbRaises)
                     ELSE [r EXCEPT !.trace = Append(@, "getClients"),
                                    !.pc = "state", !.clients = boot.value]]
    /\ UNCHANGED <<env, zoraBoot, zoraLegacy, zoraLoad, zoraProv, polyBoot, polyLoad, polyProv, uriCall, polyTools>>

\* const clients = await getClients()  /  const { tools } = await getPolymarketClient()
Bootstrap(i) ==
    /\ h[i].pc = "bootstrap"
    /\ \E t \in OnChainToolsOutcomes, cbRaises \in BOOLEAN :
         LET r == h[i]
             boot == IF r.action = "GET_POLYMARKET_EVENTS"
                     THEN getPolymarketClient(env, t)
                     ELSE getZoraClients(env)
             called == [r EXCEPT !.trace = Append(@, "getClients")]
         IN  h' = [h EXCEPT ![i] =
                     IF boot.threw
                     THEN catchBlock(called, "bootstrap", boot.error[1], cbRaises)
                     ELSE [called EXCEPT !.pc = "state", !.clients = boot.value]]
    /\ UNCHANGED <<env, zoraBoot, zoraLegacy, zoraLoad, zoraProv, polyBoot, polyLoad, polyProv, uriCall, polyTools>>

\* let currentState = state ?? (await runtime.composeState(message));
\* currentState = await runtime.updateRecentMessageState(currentState);
\* failAt: the runtime call that rejects, if any
ComposeState(i) ==
    /\ h[i].pc = "state"
    /\ \E failAt \in {"none", "composeState", "updateRecentMessageState"},
          err \in StepErrors, cbRaises \in BOOLEAN :
         LET r == h[i]
             composed == IF r.stateGiven THEN r
                         ELSE [r EXCEPT !.trace = Append(@, "composeState")]
             updated == [composed EXCEPT !.trace = Append(@, "updateRecentMessageState")]
         IN  /\ failAt = "composeState" => ~r.stateGiven
             /\ h' = [h EXCEPT ![i] =
                        CASE failAt = "composeState" -> catchBlock(composed, "state", err, cbRaises)
                          [] failAt = "updateRecentMessageState" -> catchBlock(updated, "state", err, cbRaises)
                          [] failAt = "none" -> [updated EXCEPT !.pc = "extract"]]
    /\ UNCHANGED <<env, zoraBoot, zoraLegacy, zoraLoad, zoraProv, polyBoot, polyLoad, polyProv, uriCall, polyTools>>

-----------------------------------------------------------------------------
(* Parameter extraction: generateParameters / generateObject *)

\* What the model extracts for CREATE_COIN (createCoinSchema)
CreateParams ==
    [name : {"My Coin"}, symbol : {"MAC"},
     uri : {None, Some("https://a.io/m.json"), Some("https://a.io/m.json "), Some("my coin")},
     image : {None}, description : {None},
     payoutRecipient : {"0xPayout"}, platformReferrer : {None},
     currency : {None, Some("ZORA"), Some("ETH")}]

\* What the model extracts for TRADE_COIN, before the schema's defaults
TradeRaw ==
    [coinAddress : {"0xCoin"}, amountIn : {"0.001", "1.5 ETH"}, slippage : {None, Some("0.1")}]

DefaultSlippage == "0.05"

tradeCoinSchema_NoDefaults(raw) ==
    [sellType |-> "eth", buyType |-> "erc20", coinAddress |-> raw.coinAddress,
     amountIn |-> raw.amountIn, slippage |-> raw.slippage]

\* tradeCoinSchema: sellType, buyType and slippage have defaults
tradeCoinSchema(raw) ==
    [sellType |-> "eth", buyType |-> "erc20", coinAddress |-> raw.coinAddress,
     amountIn |-> raw.amountIn, slippage |-> OrElse(raw.slippage, DefaultSlippage)]

\* What the model extracts for GET_POLYMARKET_EVENTS
EventParams == {[query |-> None], [query |-> Some("election")]}

\* The objects the model may produce for an action
RawParams(action) ==
    CASE action = "CREATE_COIN" -> CreateParams
      [] action = "TRADE_COIN" -> TradeRaw
      [] action = "GET_POLYMARKET_EVENTS" -> EventParams

\* generateObject hands the object back as the schema parses it
applySchema(action, raw) == IF action = "TRADE_COIN" THEN tradeCoinSchema(raw) ELSE raw

ExtractedParams(action) == {applySchema(action, raw) : raw \in RawParams(action)}

Extract_BeforeState(i) ==
    /\ h[i].pc \in {"state", "extract"}
    /\ \E fails \in BOOLEAN, err \in StepErrors, cbRaises \in BOOLEAN,
          raw \in RawParams(h[i].action) :
         LET r == [h[i] EXCEPT !.trace = Append(@, "generateObject")]
         IN  h' = [h EXCEPT ![i] =
                     IF fails THEN catchBlock(r, "extract", err, cbRaises)
                     ELSE [r EXCEPT !.extracted = Some(raw),
                                    !.params = Some(applySchema(r.action, raw)),
                                    !.pc = IF r.action = "CREATE_COIN" THEN "uri" ELSE "sdk"]]
    /\ UNCHANGED <<env, zoraBoot, zoraLegacy, zoraLoad, zoraProv, polyBoot, polyLoad, polyProv, uriCall, polyTools>>

\* const parameters = await generateParameters(runtime, parameterContext, schema)
Extract(i) ==
    /\ h[i].pc = "extract"
    /\ \E fails \in BOOLEAN, err \in StepErrors, cbRaises \in BOOLEAN,
          raw \in RawParams(h[i].action) :
         LET r == [h[i] EXCEPT !.trace = Append(@, "generateObject")]
         IN  h' = [h EXCEPT ![i] =
                     IF fails THEN catchBlock(r, "extract", err, cbRaises)
                     ELSE [r EXCEPT !.extracted = Some(raw),
                                    !.params = Some(applySchema(r.action, raw)),
                                    !.pc = IF r.action = "CREATE_COIN" THEN "uri" ELSE "sdk"]]
    /\ UNCHANGED <<env, zoraBoot, zoraLegacy, zoraLoad, zoraProv, polyBoot, polyLoad, polyProv, uriCall, polyTools>>

\* const resolvedUri = await ensureMetadataUri(runtime, {...}), to its first await
ResolveUri(i) ==
    /\ h[i].pc = "uri"
    /\ \E cbRaises \in BOOLEAN :
         LET r == h[i]
             p == r.params[1]
             b == ensureMetadataUriBegin(env, [name |-> p.name, symbol |-> p.symbol, uri |-> p.uri,
                                               image |-> p.image, description |-> p.description])
         IN  h' = [h EXCEPT ![i] =
                     CASE b.kind = "return" -> [r EXCEPT !.resolvedUri = b.value, !.pc = "sdk"]
                       [] b.kind = "throw" -> catchBlock(r, "uri", b.error[1], cbRaises)
                       [] b.kind = "fetch" ->
                            [r EXCEPT !.pinRequests = Append(@, b.request[1]),
                                      !.trace = Append(@, "fetch"), !.pc = "pin"]]
    /\ UNCHANGED <<env, zoraBoot, zoraLegacy, zoraLoad, zoraProv, polyBoot, polyLoad, polyProv, uriCall, polyTools>>

\* the pin request settles
PinResponse_Fallback(i) ==
    /\ h[i].pc = "pin"
    /\ \E response \in PinResponses, cbRaises \in BOOLEAN :
         LET r == h[i]
             f == ensureMetadataUriFinish(response)
         IN  h' = [h EXCEPT ![i] =
                     IF f.threw
                     THEN [r EXCEPT !.resolvedUri = Some(OrElse(r.params[1].uri, "")), !.pc = "sdk"]
                     ELSE [r EXCEPT !.resolvedUri = f.value, !.pc = "sdk"]]
    /\ UNCHANGED <<env, zoraBoot, zoraLegacy, zoraLoad, zoraProv, polyBoot, polyLoad, polyProv, uriCall, polyTools>>

PinResponse(i) ==
    /\ h[i].pc = "pin"
    /\ \E response \in PinResponses, cbRaises \in BOOLEAN :
         LET r == h[i]
             f == ensureMetadataUriFinish(response)
         IN  h' = [h EXCEPT ![i] =
                     IF f.threw THEN catchBlock(r, "uri", f.error[1], cbRaises)
                     ELSE [r EXCEPT !.resolvedUri = f.value, !.pc = "sdk"]]
    /\ UNCHANGED <<env, zoraBoot, zoraLegacy, zoraLoad, zoraProv, polyBoot, polyLoad, polyProv, uriCall, polyTools>>

-----------------------------------------------------------------------------
(* viem parseEther *)

Digits == {CharAt("0123456789", i) : i \in 1..10}

EtherDecimals == 18

isDigits(s) == \A i \in 1..Len(s) : CharAt(s, i) \in Digits

\* the index of the first "." of s, or 0
dotIndex(s) ==
    IF \E i \in 1..Len(s) : CharAt(s, i) = "."
    THEN CHOOSE i \in 1..Len(s) : CharAt(s, i) = "." /\ \A j \in 1..(i - 1) : CharAt(s, j) # "."
    ELSE 0

integerPart(s) == IF dotIndex(s) = 0 THEN s ELSE SubSeq(s, 1, dotIndex(s) - 1)
fractionPart(s) == IF dotIndex(s) = 0 THEN "" ELSE SubSeq(s, dotIndex(s) + 1, Len(s))

\* /^([0-9]*)\.?([0-9]*)$/
isDecimal(s) == isDigits(integerPart(s)) /\ isDigits(fractionPart(s))

RECURSIVE padEnd(_, _)
padEnd(s, n) == IF Len(s) >= n THEN s ELSE padEnd(s \o "0", n)

RECURSIVE stripLeadingZeros(_)
stripLeadingZeros(s) ==
    IF Len(s) > 1 /\ CharAt(s, 1) = "0" THEN stripLeadingZeros(SubSeq(s, 2, Len(s))) ELSE s

\* parseEther(value): the amount in wei as a bigint (its decimal digits and
\* the suffix n); undefined when value is no decimal number (parseEther
\* throws).  Fraction digits beyond EtherDecimals are cut.
parseEther(value) ==
    IF ~isDecimal(value) THEN None
    ELSE Some(stripLeadingZeros(integerPart(value)
                \o SubSeq(padEnd(fractionPart(value), EtherDecimals), 1, EtherDecimals)) \o "n")

InvalidDecimalError(value) == Error("Number \"" \o value \o "\" is not a valid decimal number.")

-----------------------------------------------------------------------------
(* SDK results and their serialization *)

\* A value an SDK or tool call resolves to: whether it is truthy, the JSON
\* text of its ordinary fields, the bigint it carries (if any), and the
\* properties hash, address and deployment (undefined where it has none).
Result(truthy, text, big, hash, address, deployment) ==
    [truthy |-> truthy, text |-> text, big |-> big,
     hash |-> hash, address |-> address, deployment |-> deployment]

Undefined == Result(FALSE, "undefined", None, None, None, None)

BigValue == "340282366920938463463374607431768211456n"

CoinResults == {
    Result(TRUE, "\"hash\":\"0xtx1\",\"address\":\"0xcoin1\"", None,
           Some("0xtx1"), Some("0xcoin1"), Some("deployment-1")),
    Result(TRUE, "\"hash\":\"0xtx2\"", Some(BigValue), Some("0xtx2"), None, None) }

TradeResults == {
    Result(TRUE, "\"hash\":\"0xtx3\"", None, Some("0xtx3"), None, None),
    Result(TRUE, "\"hash\":\"0xtx4\"", Some(BigValue), Some("0xtx4"), None, None) }

ToolResults == {
    Result(TRUE, "\"events\":[1,2]", None, None, None, None),
    Result(TRUE, "\"events\":[]", None, None, None, None),
    Result(TRUE, "\"volume\":1", Some(BigValue), None, None, None),
    Result(FALSE, "null", None, None, None, None),
    Result(FALSE, "0", None, None, None, None) }

\* val.toString() of a bigint: its decimal digits
bigintToString(big) == SubSeq(big, 1, Len(big) - 1)

\* JSON.stringify(value, (_key, val) => typeof val === 'bigint' ? val.toString() : val)
safeStringify(value) ==
    IF ~value.truthy THEN Returned(value.text, <<>>)
    ELSE IF value.big = None THEN Returned("{" \o value.text \o "}", <<>>)
    ELSE Returned("{" \o value.text \o ",\"amount\":\"" \o bigintToString(value.big[1]) \o "\"}", <<>>)

BigIntTypeError == Error("Do not know how to serialize a BigInt")

\* JSON.stringify(result, null, 2)
jsonStringify(value) ==
    IF ~value.truthy THEN Returned(value.text, <<>>)
    ELSE IF value.big = None THEN Returned("{" \o value.text \o "}", <<>>)
    ELSE Threw(BigIntTypeError, <<>>)

-----------------------------------------------------------------------------
(* The SDK or tool call of each handler *)

SdkOutcomes(results) == {Returned(v, <<>>) : v \in results} \cup {Threw(x, <<>>) : x \in StepErrors}

deployCurrency_ZoraDefault(currency) ==
    IF currency = Some("ETH") THEN "DeployCurrency.ETH" ELSE "DeployCurrency.ZORA"

\* currency: parameters.currency === 'ZORA' ? DeployCurrency.ZORA : DeployCurrency.ETH
deployCurrency(currency) ==
    IF currency = Some("ZORA") THEN "DeployCurrency.ZORA" ELSE "DeployCurrency.ETH"

coinParams_ExtractedUri(parameters, resolvedUri) ==
    [name |-> parameters.name,
     symbol |-> parameters.symbol,
     uri |-> OrElse(parameters.uri, resolvedUri),
     payoutRecipient |-> parameters.payoutRecipient,
     platformReferrer |-> IF Falsy(parameters.platformReferrer) THEN None
                          ELSE parameters.platformReferrer,
     currency |-> IF parameters.currency = Some("ZORA") THEN "DeployCurrency.ZORA"
                  ELSE "DeployCurrency.ETH"]

coinParams(parameters, resolvedUri) ==
    [name |-> parameters.name,
     symbol |-> parameters.symbol,
     uri |-> resolvedUri,
     payoutRecipient |-> parameters.payoutRecipient,
     platformReferrer |-> IF Falsy(parameters.platformReferrer) THEN None
                          ELSE parameters.platformReferrer,
     currency |-> deployCurrency(parameters.currency)]

tradeParameters(parameters, clients) ==
    [sell |-> [type |-> "eth"],
     buy |-> [type |-> "erc20", address |-> parameters.coinAddress],
     amountIn |-> parseEther(parameters.amountIn),
     slippage |-> parameters.slippage,
     sender |-> clients.account.address]

CreateCoinCall_Retry(r, outcome, cbRaises) ==
    LET args == [fn |-> "createCoin",
                 params |-> coinParams(r.params[1], r.resolvedUri[1]),
                 walletClient |-> r.clients[1].walletClient,
                 publicClient |-> r.clients[1].publicClient,
                 gasMultiplier |-> 120]
        called == [r EXCEPT !.sdkCalls = Append(@, args), !.trace = Append(@, "createCoin")]
        again == [called EXCEPT !.sdkCalls = Append(@, args), !.trace = Append(@, "createCoin")]
    IN  IF outcome.threw THEN catchBlock(again, "sdk", outcome.error[1], cbRaises)
        ELSE [called EXCEPT !.result = outcome.value, !.pc = "respond"]

\* await createCoin(coinParams, walletClient, publicClient, { gasMultiplier: 120 })
CreateCoinCall(r, outcome, cbRaises) ==
    LET args == [fn |-> "createCoin",
                 params |-> coinParams(r.params[1], r.resolvedUri[1]),
                 walletClient |-> r.clients[1].walletClient,
                 publicClient |-> r.clients[1].publicClient,
                 gasMultiplier |-> 120]
        called == [r EXCEPT !.sdkCalls = Append(@, args), !.trace = Append(@, "createCoin")]
    IN  IF outcome.threw THEN catchBlock(called, "sdk", outcome.error[1], cbRaises)
        ELSE [called EXCEPT !.result = outcome.value, !.pc = "respond"]

\* await tradeCoin({ tradeParameters, walletClient, account, publicClient })
TradeCoinCall(r, outcome, cbRaises) ==
    LET tp == tradeParameters(r.params[1], r.clients[1])
        args == [fn |-> "tradeCoin",
                 params |-> tp,
                 walletClient |-> r.clients[1].walletClient,
                 publicClient |-> r.clients[1].publicClient,
                 account |-> r.clients[1].account]
        called == [r EXCEPT !.sdkCalls = Append(@, args), !.trace = Append(@, "tradeCoin")]
    IN  IF tp.amountIn = None
        THEN catchBlock(r, "sdk", InvalidDecimalError(r.params[1].amountIn), cbRaises)
        ELSE IF outcome.threw THEN catchBlock(called, "sdk", outcome.error[1], cbRaises)
        ELSE [called EXCEPT !.result = outcome.value, !.pc = "respond"]

\* tool.name?.toLowerCase().includes('event') || tool.name?.toLowerCase().includes('market')
isEventTool(tool) ==
    /\ tool.name # None
    /\ \/ includes(toLowerCase(tool.name[1]), "event")
       \/ includes(toLowerCase(tool.name[1]), "market")

findEventTool_Last(tools) ==
    IF \E k \in 1..Len(tools) : isEventTool(tools[k])
    THEN CHOOSE k \in 1..Len(tools) :
            isEventTool(tools[k]) /\ \A j \in (k + 1)..Len(tools) : ~isEventTool(tools[j])
    ELSE 0

\* tools.find(...): the index of the first match, or 0
findEventTool(tools) ==
    IF \E k \in 1..Len(tools) : isEventTool(tools[k])
    THEN CHOOSE k \in 1..Len(tools) :
            isEventTool(tools[k]) /\ \A j \in 1..(k - 1) : ~isEventTool(tools[j])
    ELSE 0

\* const result = await eventTool.execute?.(params) || await eventTool.call?.(params)
ToolCall(r, executeOutcome, callOutcome, cbRaises) ==
    LET tools == r.clients[1].tools
        k == findEventTool(tools)
        entry(fn) == [fn |-> fn, tool |-> tools[k].name, params |-> r.params[1]]
        afterExecute == IF tools[k].execute
                        THEN [r EXCEPT !.sdkCalls = Append(@, entry("execute")),
                                       !.trace = Append(@, "execute")]
                        ELSE r
        first == IF tools[k].execute THEN executeOutcome ELSE Returned(Undefined, <<>>)
        afterCall == IF tools[k].call
                     THEN [afterExecute EXCEPT !.sdkCalls = Append(@, entry("call")),
                                               !.trace = Append(@, "call")]
                     ELSE afterExecute
        second == IF tools[k].call THEN callOutcome ELSE Returned(Undefined, <<>>)
    IN  IF k = 0 THEN catchBlock(r, "sdk", Error("Events tool not found"), cbRaises)
        ELSE IF first.threw THEN catchBlock(afterExecute, "sdk", first.error[1], cbRaises)
        ELSE IF first.value[1].truthy
        THEN [afterExecute EXCEPT !.result = first.value, !.pc = "respond"]
        ELSE IF second.threw THEN catchBlock(afterCall, "sdk", second.error[1], cbRaises)
        ELSE [afterCall EXCEPT !.result = second.value, !.pc = "respond"]

SdkCall(i) ==
    /\ h[i].pc = "sdk"
    /\ \E cbRaises \in BOOLEAN :
         \/ /\ h[i].action = "CREATE_COIN"
            /\ \E outcome \in SdkOutcomes(CoinResults) :
                 h' = [h EXCEPT ![i] = CreateCoinCall(h[i], outcome, cbRaises)]
         \/ /\ h[i].action = "TRADE_COIN"
            /\ \E outcome \in SdkOutcomes(TradeResults) :
                 h' = [h EXCEPT ![i] = TradeCoinCall(h[i], outcome, cbRaises)]
         \/ /\ h[i].action = "GET_POLYMARKET_EVENTS"
            /\ \E executeOutcome \in SdkOutcomes(ToolResults), callOutcome \in SdkOutcomes(ToolResults) :
                 h' = [h EXCEPT ![i] = ToolCall(h[i], executeOutcome, callOutcome, cbRaises)]
    /\ UNCHANGED <<env, zoraBoot, zoraLegacy, zoraLoad, zoraProv, polyBoot, polyLoad, polyProv, uriCall, polyTools>>

-----------------------------------------------------------------------------
(* Response generation, the success callback and the return *)

\* What generateText resolves to
ResponseTexts == {"Your coin is live.", ""}

successPayload_ParamsAsContent(r, text) == [text |-> text, content |-> r.params[1]]

successPayload(r, text) ==
    LET result == r.result[1]
    IN  CASE r.action = "CREATE_COIN" ->
               [text |-> text,
                content |-> [transactionHash |-> result.hash,
                             coinAddress |-> result.address,
                             deploymentDetails |-> result.deployment]]
          [] r.action = "TRADE_COIN" ->
               [text |-> text,
                content |-> [transactionHash |-> result.hash, tradeDetails |-> result]]
          [] r.action = "GET_POLYMARKET_EVENTS" ->
               [text |-> text, content |-> result]

\* composeResponseContext / generateResponse serialize the result into the prompt
serializeResult(action, result) ==
    IF action = "GET_POLYMARKET_EVENTS" THEN jsonStringify(result) ELSE safeStringify(result)

Respond_Resubmit(i) ==
    /\ h[i].pc = "respond"
    /\ \E fails \in BOOLEAN, err \in StepErrors, text \in ResponseTexts,
          cbRaisesOnSuccess \in BOOLEAN, cbRaises \in BOOLEAN :
         LET r == h[i]
             serialized == serializeResult(r.action, r.result[1])
             prompted == [r EXCEPT !.prompt = serialized.value, !.trace = Append(@, "generateText")]
             resubmitted == IF r.sdkCalls = <<>> THEN prompted
                            ELSE [prompted EXCEPT !.sdkCalls = Append(@, @[Len(@)]),
                                                  !.trace = Append(@, r.sdkCalls[1].fn)]
             succeeded == [prompted EXCEPT !.cb = Append(@, successPayload(r, text))]
         IN  h' = [h EXCEPT ![i] =
                     IF serialized.threw THEN catchBlock(r, "respond", serialized.error[1], cbRaises)
                     ELSE IF fails THEN catchBlock(resubmitted, "respond", err, cbRaises)
                     ELSE IF ~r.hasCallback THEN [prompted EXCEPT !.pc = "done", !.ret = Some(TRUE)]
                     ELSE IF cbRaisesOnSuccess
                     THEN catchBlock(succeeded, "successCallback", CallbackError, cbRaises)
                     ELSE [succeeded EXCEPT !.pc = "done", !.ret = Some(TRUE)]]
    /\ UNCHANGED <<env, zoraBoot, zoraLegacy, zoraLoad, zoraProv, polyBoot, polyLoad, polyProv, uriCall, polyTools>>

\* const response = await generateResponse(...); callback?.({...}); return true;
Respond(i) ==
    /\ h[i].pc = "respond"
    /\ \E fails \in BOOLEAN, err \in StepErrors, text \in ResponseTexts,
          cbRaisesOnSuccess \in BOOLEAN, cbRaises \in BOOLEAN :
         LET r == h[i]
             serialized == serializeResult(r.action, r.result[1])
             prompted == [r EXCEPT !.prompt = serialized.value, !.trace = Append(@, "generateText")]
             succeeded == [prompted EXCEPT !.cb = Append(@, successPayload(r, text))]
         IN  h' = [h EXCEPT ![i] =
                     IF serialized.threw THEN catchBlock(r, "respond", serialized.error[1], cbRaises)
                     ELSE IF fails THEN catchBlock(prompted, "respond", err, cbRaises)
                     ELSE IF ~r.hasCallback THEN [prompted EXCEPT !.pc = "done", !.ret = Some(TRUE)]
                     ELSE IF cbRaisesOnSuccess
                     THEN catchBlock(succeeded, "successCallback", CallbackError, cbRaises)
                     ELSE [succeeded EXCEPT !.pc = "done", !.ret = Some(TRUE)]]
    /\ UNCHANGED <<env, zoraBoot, zoraLegacy, zoraLoad, zoraProv, polyBoot, polyLoad, polyProv, uriCall, polyTools>>

-----------------------------------------------------------------------------
(* Specifications *)

Invocations == {1, 2}

NothingCalled ==
    /\ zoraBoot = None /\ zoraLegacy = None /\ zoraLoad = None /\ zoraProv = None
    /\ polyBoot = None /\ polyLoad = None /\ polyProv = None /\ polyTools = None
    /\ uriCall = UriIdle
    /\ h = [i \in Invocations |-> Idle]

\* The handlers, one invocation at a time, under the handler configurations
Init ==
    /\ env \in HandlerEnvs
    /\ NothingCalled

Next ==
    \/ Invoke(1)
    \/ Bootstrap(1)
    \/ ComposeState(1)
    \/ Extract(1)
    \/ ResolveUri(1)
    \/ PinResponse(1)
    \/ SdkCall(1)
    \/ Respond(1)

Spec == Init /\ [][Next]_vars

\* One step of invocation i, whichever await it stands at
Step(i) ==
    \/ Invoke(i)
    \/ Bootstrap(i)
    \/ ComposeState(i)
    \/ Extract(i)
    \/ ResolveUri(i)
    \/ PinResponse(i)
    \/ SdkCall(i)
    \/ Respond(i)

\* The runs the two-invocation specification follows: a callback is passed
\* and returns normally, the state comes with the message, what a step raises
\* is an Error with a message, and the extracted parameters, the tool list
\* and the results are the plainest of each kind.
Plain(r) ==
    /\ r.pc # "idle" => r.stateGiven /\ r.hasCallback
    /\ r.escaped = None
    /\ \A k \in 1..Len(r.cb) :
         /\ r.cb[k].text # ""
         /\ "error" \in DOMAIN r.cb[k].content
            => r.cb[k].content.error \notin {"", "rate limited"}
    /\ r.extracted # None =>
         CASE r.action = "CREATE_COIN" ->
                r.extracted[1].currency = None /\ r.extracted[1].uri # Some("https://a.io/m.json ")
           [] r.action = "TRADE_COIN" -> r.extracted[1].slippage = None
           [] r.action = "GET_POLYMARKET_EVENTS" -> r.extracted[1].query = None
    /\ (r.action = "GET_POLYMARKET_EVENTS" /\ r.clients # None) => Len(r.clients[1].tools) = 3
    /\ r.result # None => r.result[1].truthy /\ r.result[1].big = None /\ r.result[1].address = None

\* Two handler invocations for distinct messages, interleaved at their awaits
NextConcurrent ==
    \/ Step(1) /\ Plain(h[1])'
    \/ Step(2) /\ Plain(h[2])'

SpecConcurrent == Init /\ [][NextConcurrent]_vars

\* The Zora plugin's bootstrap, provider and load under every Zora configuration
ZoraEnvs ==
    {[Unset EXCEPT !["ZORA_RPC_URL"] = u, !["ZORA_PRIVATE_KEY"] = k, !["ZORA_CHAIN"] = c] :
        u \in RpcUrlValues, k \in KeyValues, c \in ChainValues}

InitZora ==
    /\ env \in ZoraEnvs
    /\ NothingCalled

NextZora ==
    \/ CallGetZoraClients
    \/ CallGetZoraClientsLegacy
    \/ LoadZoraPlugin
    \/ CallZoraProviderGet

SpecZora == InitZora /\ [][NextZora]_vars

\* The Polymarket plugin's bootstrap, provider and load under every
\* Polymarket configuration
PolyEnvs ==
    {[Unset EXCEPT !["POLYMARKET_API_KEY"] = a, !["POLYMARKET_SECRET"] = s,
                   !["POLYMARKET_PASSPHRASE"] = p, !["WALLET_PRIVATE_KEY"] = k,
                   !["RPC_PROVIDER_URL"] = u] :
        a \in SecretValues, s \in SecretValues, p \in SecretValues,
        k \in KeyValues, u \in {None, Some(""), Some("https://polygon-rpc.com")}}

InitPoly ==
    /\ env \in PolyEnvs
    /\ NothingCalled

NextPoly ==
    \/ CallGetPolymarketClient
    \/ LoadPolymarketPlugin
    \/ CallWalletProviderGet

SpecPoly == InitPoly /\ [][NextPoly]_vars

\* ensureMetadataUri called directly, with and without the pinning credential
UriEnvs ==
    {[Unset EXCEPT !["PINATA_JWT"] = j, !["PINATA_DEFAULT_IMAGE_CID"] = c] :
        j \in {None, Some(""), Some("jwt")}, c \in {None, Some("bafyimg")}}

InitUri ==
    /\ env \in UriEnvs
    /\ NothingCalled

NextUri ==
    \/ UriBegin
    \/ UriFinish

SpecUri == InitUri /\ [][NextUri]_vars

\* Plugin load of both plugins, under the Zora, the Polymarket and the
\* handler configurations
LoadEnvs ==
    {e \in ZoraEnvs : e["ZORA_CHAIN"] = None} \cup PolyEnvs \cup HandlerEnvs

InitLoad ==
    /\ env \in LoadEnvs
    /\ NothingCalled

NextLoad ==
    \/ LoadZoraPlugin
    \/ LoadPolymarketPlugin

SpecLoad == InitLoad /\ [][NextLoad]_vars

\* Client bootstrap of both plugins
BootstrapEnvs ==
    ZoraEnvs \cup PolyEnvs
    \cup {[n \in EnvNames |-> IF n \in PolyNames THEN p[n] ELSE z[n]] :
             z \in HandlerEnvs, p \in HandlerEnvs}

InitBootstrap ==
    /\ env \in BootstrapEnvs
    /\ NothingCalled

NextBootstrap ==
    \/ CallGetZoraClients
    \/ CallGetZoraClientsLegacy
    \/ CallGetPolymarketClient

SpecBootstrap == InitBootstrap /\ [][NextBootstrap]_vars

\* Plugin load where, in addition, the action-list builders may reject
NextLoadFault ==
    \/ LoadZoraPlugin
    \/ LoadPolymarketPlugin
    \/ LoadZoraPluginBuildThrows
    \/ LoadPolymarketPluginBuildThrows

SpecLoadFault == InitLoad /\ [][NextLoadFault]_vars

\* The two providers' get, under the Zora, the Polymarket and the handler
\* configurations
InitProviders ==
    /\ env \in ZoraEnvs \cup PolyEnvs \cup HandlerEnvs
    /\ NothingCalled

NextProviders ==
    \/ CallZoraProviderGet
    \/ CallWalletProviderGet

SpecProviders == InitProviders /\ [][NextProviders]_vars

\* The actions the two loaded plugins hold: plugin.actions of each
RegisteredActions ==
    (IF zoraLoad = None THEN {} ELSE Range(zoraLoad[1].value[1]))
        \cup (IF polyLoad = None THEN {} ELSE Range(polyLoad[1].value[1]))

\* The runtime invokes the handler of an action a loaded plugin holds
InvokeRegistered(i) ==
    /\ Invoke(i)
    /\ h'[i].action \in RegisteredActions

\* process.env is changed after both plugins were loaded; every later
\* process.env read sees the new values
ChangeConfiguration ==
    /\ zoraLoad # None
    /\ polyLoad # None
    /\ env' \in HandlerEnvs \ {env}
    /\ UNCHANGED <<zoraBoot, zoraLegacy, zoraLoad, zoraProv, polyBoot, polyLoad, polyProv,
                   polyTools, uriCall, h>>

\* Both plugins are loaded, the configuration changes afterwards, and the
\* handlers of the loaded actions are invoked under whatever it is by then
NextReconfigure ==
    \/ LoadZoraPlugin
    \/ LoadPolymarketPlugin
    \/ ChangeConfiguration
    \/ InvokeRegistered(1)
    \/ Bootstrap(1)
    \/ ComposeState(1)
    \/ Extract(1)
    \/ ResolveUri(1)
    \/ PinResponse(1)
    \/ SdkCall(1)
    \/ Respond(1)

SpecReconfigure == Init /\ [][NextReconfigure]_vars

\* Plugin load and client bootstrap of both plugins under one configuration
NextGating ==
    \/ LoadZoraPlugin
    \/ LoadPolymarketPlugin
    \/ CallGetZoraClients
    \/ CallGetPolymarketClient

SpecGating == InitLoad /\ [][NextGating]_vars

-----------------------------------------------------------------------------
(* Claims *)

Finished(i) == h[i].pc = "done"

\* The steps of a handler at which an exception is raised by the step itself
ListedSteps == {"bootstrap", "state", "extract", "uri", "sdk", "respond"}

PolyGroups == {"api", "wallet"}
GroupNames(g) == IF g = "api" THEN Range(PolyApiNames) ELSE Range(PolyWalletNames)
GroupsWithMissing(e) == {g \in PolyGroups : \E n \in GroupNames(g) : Falsy(e[n])}

\* The configuration names a message mentions, and the groups they form
NamedIn(msg) == {n \in EnvNames : includes(msg, n)}
NamesExactly(msg, groups) == NamedIn(msg) = UNION {GroupNames(g) : g \in groups}

PolyBootDone == polyBoot # None
PolyBootMessage == polyBoot[1].error[1].message

\* C2, as stated: whenever a required Polymarket value is missing,
\* getPolymarketClient fails with a message naming exactly the groups that
\* have a missing value, and constructs nothing.
C2_NamesEveryGroupWithMissing ==
    (PolyBootDone /\ GroupsWithMissing(env) # {})
    => /\ polyBoot[1].threw
       /\ NamesExactly(PolyBootMessage, GroupsWithMissing(env))
       /\ polyBoot[1].calls = <<>>

\* C2, amended: whenever a required Polymarket value is missing,
\* getPolymarketClient fails with a message naming exactly one group that has
\* a missing value (the API-credential group when it has one, the
\* wallet-configuration group otherwise), and no account, wallet client or
\* tool list is constructed.
C2_NamesOneGroupWithMissing ==
    (PolyBootDone /\ GroupsWithMissing(env) # {})
    => /\ polyBoot[1].threw
       /\ \E g \in GroupsWithMissing(env) :
            /\ NamesExactly(PolyBootMessage, {g})
            /\ g = "wallet" => "api" \notin GroupsWithMissing(env)
       /\ polyBoot[1].calls = <<>>

C2_Witness ==
    /\ PolyBootDone
    /\ GroupsWithMissing(env) = {"wallet"}
    /\ polyBoot[1].threw
    /\ NamesExactly(PolyBootMessage, {"wallet"})
    /\ polyBoot[1].calls = <<>>

\* C3: getPolymarketClient checks the API-credential group first: when any of
\* the three API values is missing the error names all three API variables
\* whatever the state of the wallet group; the wallet-configuration error is
\* reported only when all three API values are present and WALLET_PRIVATE_KEY
\* or RPC_PROVIDER_URL is missing.
C3_ApiGroupFirst ==
    PolyBootDone
    => /\ "api" \in GroupsWithMissing(env)
          => /\ polyBoot[1].threw
             /\ PolyBootMessage = PolyApiMissingMessage
             /\ Range(PolyApiNames) \subseteq NamedIn(PolyBootMessage)
       /\ (polyBoot[1].threw /\ PolyBootMessage = PolyWalletMissingMessage)
          => GroupsWithMissing(env) = {"wallet"}

C3_Witness ==
    /\ PolyBootDone
    /\ GroupsWithMissing(env) = {"api", "wallet"}
    /\ Falsy(env["POLYMARKET_PASSPHRASE"]) /\ ~Falsy(env["POLYMARKET_API_KEY"])
    /\ PolyBootMessage = PolyApiMissingMessage


\* P holds of the outcome of every getZoraClients call made so far (both copies)
EveryZoraBoot(P(_)) ==
    /\ zoraBoot # None => P(zoraBoot[1])
    /\ zoraLegacy # None => P(zoraLegacy[1])

ZoraValueMissing(e) == Falsy(e["ZORA_RPC_URL"]) \/ Falsy(e["ZORA_PRIVATE_KEY"])

\* a missing value: the error names both variables and nothing was built
ZoraMissingReported(o) ==
    /\ o.threw
    /\ {"ZORA_RPC_URL", "ZORA_PRIVATE_KEY"} \subseteq NamedIn(o.error[1].message)
    /\ o.calls = <<>>

\* a bundle whose clients share one chain and the configured RPC URL
ZoraBundleBound(o, e) ==
    /\ ~o.threw
    /\ o.value[1].publicClient.chain = o.value[1].walletClient.chain
    /\ o.value[1].publicClient.transport = http(e["ZORA_RPC_URL"][1])
    /\ o.value[1].walletClient.transport = http(e["ZORA_RPC_URL"][1])
    /\ o.value[1].account = privateKeyToAccount(e["ZORA_PRIVATE_KEY"][1])

BundleWheneverPresent(o) ==
    IF ZoraValueMissing(env) THEN ZoraMissingReported(o) ELSE ZoraBundleBound(o, env)

\* C4, as stated: getZoraClients fails with an error naming ZORA_RPC_URL and
\* ZORA_PRIVATE_KEY, building nothing, whenever either is missing or empty,
\* and returns a bundle bound to one chain and RPC URL whenever both are
\* present.
C4_BundleWheneverPresent == EveryZoraBoot(BundleWheneverPresent)

BundleOrError(o) ==
    IF ZoraValueMissing(env) THEN ZoraMissingReported(o)
    ELSE IF isHex(env["ZORA_PRIVATE_KEY"][1]) THEN ZoraBundleBound(o, env)
    ELSE /\ o.threw
         /\ o.error[1] = InvalidKeyError
         /\ Range(o.calls) \cap {"createPublicClient", "createWalletClient"} = {}

\* C4, amended: getZoraClients fails with an error naming ZORA_RPC_URL and
\* ZORA_PRIVATE_KEY, deriving no account and building no client, whenever
\* either is missing or empty; when both are present it returns a bundle of
\* account, wallet client and public client bound to one chain and the
\* configured RPC URL if the private key is one privateKeyToAccount accepts,
\* and otherwise raises that function's error having built no client.
C4_BundleOrError == EveryZoraBoot(BundleOrError)

C4_Witness ==
    /\ zoraBoot # None
    /\ env["ZORA_RPC_URL"] = Some("https://sepolia.base.org")
    /\ ZoraBundleBound(zoraBoot[1], env)
    /\ zoraBoot[1].value[1].walletClient.chain = baseSepolia
    /\ zoraLegacy # None
    /\ ZoraBundleBound(zoraLegacy[1], env)

ZoraReturned == zoraBoot # None /\ ~zoraBoot[1].threw
ZoraChainResolved == zoraBoot[1].value[1].publicClient.chain

\* C5, as stated: the chain is Base Sepolia when ZORA_CHAIN is base-sepolia
\* or ZORA_RPC_URL contains "sepolia" or "84532", and Base for every other
\* combination.
C5_SepoliaOnlyAsStated ==
    ZoraReturned
    => ZoraChainResolved =
         IF \/ env["ZORA_CHAIN"] = Some("base-sepolia")
            \/ includes(env["ZORA_RPC_URL"][1], "sepolia")
            \/ includes(env["ZORA_RPC_URL"][1], "84532")
         THEN baseSepolia ELSE base

\* Equality and containment of strings, letter case ignored
SameIgnoringCase(a, b) == toLowerCase(a) = toLowerCase(b)
ContainsIgnoringCase(s, sub) == includes(toLowerCase(s), toLowerCase(sub))

\* C5, amended: the chain is Base Sepolia when ZORA_CHAIN is, letter case
\* ignored, base-sepolia, basesepolia or sepolia, or when ZORA_RPC_URL
\* contains, letter case ignored, "sepolia" or "84532"; it is Base for every
\* other combination.
C5_SepoliaAliasesAnyCase ==
    ZoraReturned
    => ZoraChainResolved =
         IF \/ /\ env["ZORA_CHAIN"] # None
               /\ \E alias \in {"base-sepolia", "basesepolia", "sepolia"} :
                    SameIgnoringCase(env["ZORA_CHAIN"][1], alias)
            \/ ContainsIgnoringCase(env["ZORA_RPC_URL"][1], "sepolia")
            \/ ContainsIgnoringCase(env["ZORA_RPC_URL"][1], "84532")
         THEN baseSepolia ELSE base

C5_Witness ==
    /\ ZoraReturned
    /\ env["ZORA_CHAIN"] = Some("sepolia")
    /\ env["ZORA_RPC_URL"] = Some("https://mainnet.base.org")
    /\ ZoraChainResolved = baseSepolia

\* C6: an explicit ZORA_CHAIN value determines the resolved chain whatever
\* the RPC URL contains: Base Sepolia when it names the testnet, Base when it
\* names anything else.
C6_OverrideWins ==
    (ZoraReturned /\ ~Falsy(env["ZORA_CHAIN"]))
    => ZoraChainResolved =
         IF \E alias \in {"base-sepolia", "basesepolia", "sepolia"} :
              SameIgnoringCase(env["ZORA_CHAIN"][1], alias)
         THEN baseSepolia ELSE base


UriDone == uriCall.pc = "done"
UriSupplied == uriCall.params[1].uri

\* the supplied uri starts with one of the three schemes
StartsWithScheme(uri) ==
    uri # None /\ \E p \in {"ipfs://", "http://", "https://"} : startsWith(uri[1], p)

\* no usable uri is supplied: none at all, or one that, surrounding white
\* space aside, starts with none of the three schemes
NoUsableUri(uri) ==
    uri = None \/ \A p \in {"ipfs://", "http://", "https://"} : ~startsWith(trim(uri[1]), p)

C8_FailsFastWithoutCredential ==
    (uriCall.pc # "idle" /\ NoUsableUri(UriSupplied) /\ Falsy(env["PINATA_JWT"]))
    => /\ UriDone
       /\ uriCall.outcome[1].threw
       /\ uriCall.outcome[1].error[1].message = MissingPinataMessage
       /\ "PINATA_JWT" \in NamedIn(uriCall.outcome[1].error[1].message)
       /\ uriCall.requests = <<>>
       /\ uriCall.response = None

C8_Witness ==
    /\ UriDone
    /\ UriSupplied = Some("my coin")
    /\ env["PINATA_JWT"] = None
    /\ uriCall.outcome[1].threw
    /\ uriCall.requests = <<>>

\* C9: when no usable uri is supplied and PINATA_JWT is set, exactly one pin
\* request is sent per resolution, whatever the response (never none, never a
\* second one), and on a success response carrying an IpfsHash the result is
\* that content identifier prefixed with ipfs://.
C9_OnePinRequest ==
    (uriCall.pc # "idle" /\ NoUsableUri(UriSupplied) /\ ~Falsy(env["PINATA_JWT"]))
    => /\ Len(uriCall.requests) = 1
       /\ uriCall.requests[1].url = PinataEndpoint
       /\ uriCall.requests[1].authorization = "Bearer " \o env["PINATA_JWT"][1]
       /\ (/\ UriDone
           /\ uriCall.response[1].ok
           /\ uriCall.response[1].json # None
           /\ ~Falsy(uriCall.response[1].json[1].IpfsHash))
          => /\ ~uriCall.outcome[1].threw
             /\ uriCall.outcome[1].value[1] = "ipfs://" \o uriCall.response[1].json[1].IpfsHash[1]

C9_Witness ==
    /\ UriDone
    /\ UriSupplied = None
    /\ uriCall.response = Some(HttpSuccess(Some([IpfsHash |-> Some("QmHash1")])))
    /\ uriCall.outcome[1].value = Some("ipfs://QmHash1")
    /\ Len(uriCall.requests) = 1

ZoraRequired == {"ZORA_RPC_URL", "ZORA_PRIVATE_KEY"}

\* C10: at plugin load the action list is empty whenever a required
\* configuration value is absent (Zora: ZORA_RPC_URL, ZORA_PRIVATE_KEY;
\* Polymarket: the three API values and the two wallet values) and is the
\* fixed list otherwise (Zora: CREATE_COIN then TRADE_COIN; Polymarket:
\* GET_POLYMARKET_EVENTS); load never reports absence as an error.
C10_ActionListGated ==
    /\ zoraLoad # None
       => /\ ~zoraLoad[1].threw
          /\ zoraLoad[1].value[1] =
               IF \E n \in ZoraRequired : Falsy(env[n])
               THEN <<>> ELSE <<"CREATE_COIN", "TRADE_COIN">>
    /\ polyLoad # None
       => /\ ~polyLoad[1].threw
          /\ polyLoad[1].value[1] =
               IF \E n \in PolyNames : Falsy(env[n])
               THEN <<>> ELSE <<"GET_POLYMARKET_EVENTS">>

C10_Witness ==
    /\ zoraLoad # None /\ polyLoad # None
    /\ zoraLoad[1].value[1] = <<"CREATE_COIN", "TRADE_COIN">>
    /\ Falsy(env["POLYMARKET_SECRET"])
    /\ polyLoad[1].value[1] = <<>>
    /\ ~polyLoad[1].threw


\* a load was made in which building the action list rejected
BuildRejected(load) == load # None /\ "console.error" \in Range(load[1].calls)

\* C11: plugin load never fails: initializeActions of either plugin always
\* resolves to a list, possibly empty, and never rejects, both when
\* configuration is absent and when building the action list throws (the list
\* is then empty).
C11_LoadNeverFails ==
    /\ zoraLoad # None
       => /\ ~zoraLoad[1].threw
          /\ zoraLoad[1].value[1] \in {<<>>, <<"CREATE_COIN", "TRADE_COIN">>}
          /\ BuildRejected(zoraLoad) => zoraLoad[1].value[1] = <<>>
    /\ polyLoad # None
       => /\ ~polyLoad[1].threw
          /\ polyLoad[1].value[1] \in {<<>>, <<"GET_POLYMARKET_EVENTS">>}
          /\ BuildRejected(polyLoad) => polyLoad[1].value[1] = <<>>

C11_Witness ==
    /\ \A n \in ZoraRequired : ~Falsy(env[n])
    /\ BuildRejected(zoraLoad)
    /\ zoraLoad[1].value = Some(<<>>)
    /\ polyLoad # None
    /\ \E n \in PolyNames : Falsy(env[n])
    /\ polyLoad[1].value = Some(<<>>)

ZoraAddressPrefix == "Zora Wallet Address: "
ZoraProviderErrorPrefix == "Error initializing Zora wallet: "
PolyAddressPrefix == "Polymarket Wallet Address: "
PolyProviderErrorPrefix == "Error initializing Polymarket wallet: "

\* text is prefix followed by a non-empty description
Describes(text, prefix) == startsWith(text, prefix) /\ Len(text) > Len(prefix)

ZoraConfigUsable ==
    /\ ~Falsy(env["ZORA_RPC_URL"]) /\ ~Falsy(env["ZORA_PRIVATE_KEY"])
    /\ isHex(env["ZORA_PRIVATE_KEY"][1])

PolyConfigUsable ==
    /\ \A n \in PolyNames : ~Falsy(env[n])
    /\ isHex(env["WALLET_PRIVATE_KEY"][1])

\* C12: the provider's get (zoraProvider.get, walletProvider.get) never throws
\* to its caller: when bootstrap succeeds it returns the one-line
\* wallet-address string, and on every bootstrap failure it returns an
\* error-describing string instead.
C12_ProviderNeverThrows ==
    /\ zoraProv # None
       => /\ ~zoraProv[1].threw
          /\ IF ZoraConfigUsable
             THEN zoraProv[1].value[1] = ZoraAddressPrefix \o addressOf(env["ZORA_PRIVATE_KEY"][1])
             ELSE Describes(zoraProv[1].value[1], ZoraProviderErrorPrefix)
    /\ polyProv # None
       => /\ ~polyProv[1].threw
          /\ \/ /\ PolyConfigUsable
                /\ polyProv[1].value[1] = PolyAddressPrefix \o addressOf(env["WALLET_PRIVATE_KEY"][1])
             \/ Describes(polyProv[1].value[1], PolyProviderErrorPrefix)

C12_Witness ==
    /\ zoraProv # None /\ polyProv # None
    /\ ZoraConfigUsable
    /\ startsWith(zoraProv[1].value[1], ZoraAddressPrefix)
    /\ PolyConfigUsable
    /\ startsWith(polyProv[1].value[1], PolyProviderErrorPrefix \o "Failed to initialize Polymarket client: ")


\* the tool has a name that contains "event" or "market", whatever the case
NameMatches(tool) ==
    /\ tool.name # None
    /\ ContainsIgnoringCase(tool.name[1], "event") \/ ContainsIgnoringCase(tool.name[1], "market")

\* invocation i is a GET_POLYMARKET_EVENTS run that is past its tool step
PastToolStep(i) ==
    /\ h[i].action = "GET_POLYMARKET_EVENTS"
    /\ h[i].params # None
    /\ h[i].pc \in {"respond", "done"}

ToolNotFoundMessage == "Events tool not found"

\* C13: GET_POLYMARKET_EVENTS tool selection: among the tool list in its given
\* order the handler selects the first tool whose name contains "event" or
\* "market" under case-insensitive substring match (tools without a name never
\* match), so every tool call goes to that tool; when no tool matches, the
\* action fails with the tool-not-found error and no tool is called.
C13_FirstMatchingTool ==
    \A i \in Invocations :
        PastToolStep(i) =>
            LET tools == h[i].clients[1].tools
                matching == {k \in 1..Len(tools) : NameMatches(tools[k])}
            IN  IF matching = {}
                THEN /\ h[i].sdkCalls = <<>>
                     /\ h[i].pc = "done"
                     /\ h[i].raisedAt[1] = "sdk"
                     /\ h[i].ret # Some(TRUE)
                     /\ h[i].hasCallback => h[i].cb[1].content = [error |-> ToolNotFoundMessage]
                ELSE LET first == CHOOSE k \in matching : \A j \in matching : k <= j
                     IN  /\ \A c \in 1..Len(h[i].sdkCalls) : h[i].sdkCalls[c].tool = tools[first].name
                         /\ \A c \in 1..Len(h[i].cb) :
                                "error" \in DOMAIN h[i].cb[c].content
                                => h[i].cb[c].content.error # ToolNotFoundMessage

C13_Witness ==
    /\ PastToolStep(1)
    /\ Len(h[1].clients[1].tools) = 3
    /\ ~NameMatches(h[1].clients[1].tools[1])
    /\ NameMatches(h[1].clients[1].tools[2])
    /\ NameMatches(h[1].clients[1].tools[3])
    /\ h[1].sdkCalls # <<>>
    /\ h[1].sdkCalls[1].tool = Some("Get_Polymarket_EVENTS")


\* invocation i is a TRADE_COIN run that has made its trade call
TradeCalled(i) == h[i].action = "TRADE_COIN" /\ h[i].sdkCalls # <<>>

FinishedWithBigint(i) ==
    /\ Finished(i)
    /\ h[i].result # None
    /\ h[i].result[1].big # None

\* the serialized result in the prompt holds every digit of the bigint
PromptHoldsBigint(i) ==
    /\ h[i].prompt # None
    /\ includes(h[i].prompt[1], SubSeq(h[i].result[1].big[1], 1, Len(h[i].result[1].big[1]) - 1))

\* C15: for every action, serializing an SDK result that contains very large
\* integer-valued (bigint) fields into the response prompt produces a string in
\* which those values are represented exactly, and never throws or loses
\* precision.
C15_BigintSerialized ==
    \A i \in Invocations :
        FinishedWithBigint(i)
        => /\ PromptHoldsBigint(i)
           /\ \A c \in 1..Len(h[i].cb) :
                "error" \in DOMAIN h[i].cb[c].content
                => h[i].cb[c].content.error # BigIntTypeError.message

\* the same for the two Zora actions only
C15_ZoraOnly ==
    \A i \in Invocations :
        (FinishedWithBigint(i) /\ h[i].action # "GET_POLYMARKET_EVENTS") => PromptHoldsBigint(i)


PolyWrapPrefix == "Failed to initialize Polymarket client: "

\* a bootstrap call threw after its presence validation had passed
ZoraConstructionFailed(o) ==
    o # None /\ o[1].threw /\ ~ZoraValueMissing(env)

PolyConstructionFailed ==
    /\ polyBoot # None /\ polyBoot[1].threw
    /\ \A n \in PolyNames : ~Falsy(env[n])

\* what was raised inside the construction
ZoraCause == InvalidKeyError
PolyCause ==
    IF ~isHex(env["WALLET_PRIVATE_KEY"][1]) THEN InvalidKeyError ELSE polyTools[1].error[1]

\* text is a non-empty prefix followed by underlying
WrappedAround(text, underlying) ==
    /\ Len(text) > Len(underlying)
    /\ SubSeq(text, Len(text) - Len(underlying) + 1, Len(text)) = underlying

\* no construction call is made a second time
NoRetry(o) == \A a, b \in 1..Len(o.calls) : o.calls[a] = o.calls[b] => a = b

ZoraErrorWrapped(o) ==
    (o.threw /\ ~ZoraValueMissing(env))
    => WrappedAround(o.error[1].message, ZoraCause.message) /\ NoRetry(o)

ZoraErrorAsRaised(o) ==
    (o.threw /\ ~ZoraValueMissing(env)) => o.error[1] = ZoraCause /\ NoRetry(o)

\* C16, as stated: in both plugins every error raised while constructing the
\* account, the clients or the tool list, after presence validation passed, is
\* wrapped with a fixed context prefix followed by the underlying message and
\* re-raised; bootstrap performs no retry.
C16_ConstructionErrorsWrapped ==
    /\ PolyConstructionFailed
       => /\ polyBoot[1].error[1].message = PolyWrapPrefix \o PolyCause.message
          /\ NoRetry(polyBoot[1])
    /\ EveryZoraBoot(ZoraErrorWrapped)

\* C16, amended: in the Polymarket plugin every error raised while
\* constructing the account, the wallet client or the tool list, after
\* presence validation passed, is re-raised as an Error whose message is the
\* fixed prefix followed by the underlying Error's message, or by "Unknown
\* error" when what was raised is no Error or has an empty message; in the
\* Zora plugin a construction error reaches the caller as it was raised,
\* without a prefix; neither bootstrap retries.
C16_OnlyPolymarketWraps ==
    /\ PolyConstructionFailed
       => /\ polyBoot[1].error[1].isError
          /\ polyBoot[1].error[1].message
               = PolyWrapPrefix \o (IF PolyCause.isError /\ PolyCause.message # ""
                                    THEN PolyCause.message ELSE "Unknown error")
          /\ NoRetry(polyBoot[1])
    /\ EveryZoraBoot(ZoraErrorAsRaised)

C16_Witness ==
    /\ PolyConstructionFailed
    /\ polyTools = Some(Threw(NonError("rate limited"), <<>>))
    /\ polyBoot[1].error[1].message = PolyWrapPrefix \o "Unknown error"
    /\ ZoraConstructionFailed(zoraBoot)
    /\ zoraBoot[1].error[1].message = InvalidKeyError.message


\* how often name occurs in the calls an invocation made
Occurrences(trace, name) == Cardinality({k \in 1..Len(trace) : trace[k] = name})

\* invocation i, once past its bootstrap, has bootstrapped exactly once, and
\* the bundle it holds was built from the configuration for this invocation
OwnBundle(i) ==
    h[i].pc \notin {"idle", "bootstrap"}
    => /\ Occurrences(h[i].trace, "getClients") = 1
       /\ h[i].clients # None
          => IF h[i].action = "GET_POLYMARKET_EVENTS"
             THEN h[i].clients[1].account.address = addressOf(env["WALLET_PRIVATE_KEY"][1])
             ELSE h[i].clients[1].account.address = addressOf(env["ZORA_PRIVATE_KEY"][1])

\* a step touches the frame of one invocation only, and never the configuration
OneFrameOnly ==
    /\ env' = env
    /\ \A i, j \in Invocations : (i # j /\ h'[i] # h[i]) => h'[j] = h[j]

\* C17: handlers running concurrently for distinct messages are independent:
\* each invocation bootstraps its own client bundle exactly once, and under
\* every interleaving of two invocations a step of one changes neither the
\* other's frame (its callback payloads and return value included) nor the
\* configuration, so each invocation runs as it does alone.
C17_Independent ==
    /\ [](\A i \in Invocations : OwnBundle(i))
    /\ [][OneFrameOnly]_vars

C17_Witness ==
    /\ h[1].action = "CREATE_COIN" /\ h[1].pc = "pin"
    /\ h[2].action = "GET_POLYMARKET_EVENTS" /\ h[2].pc = "respond"
    /\ h[1].clients # None /\ h[2].clients # None
    /\ h[1].clients[1].account.address = h[2].clients[1].account.address
    /\ Len(h[2].sdkCalls) = 1


\* invocation i is a CREATE_COIN run whose extracted uri starts with https://
HttpsUriExtracted(i) ==
    /\ h[i].action = "CREATE_COIN"
    /\ h[i].extracted # None
    /\ h[i].extracted[1].uri # None
    /\ startsWith(h[i].extracted[1].uri[1], "https://")

\* invocation i ran to its end with nothing raised
Succeeded(i) == Finished(i) /\ h[i].raisedAt = <<>>

\* no pin request; on success the handler returns true and the callback, if
\* there is one, was invoked once with the transaction identifier, the coin
\* address and the deployment details the SDK returned
CreatedWithoutPin(i) ==
    /\ h[i].pinRequests = <<>>
    /\ "fetch" \notin Range(h[i].trace)
    /\ Succeeded(i)
       => /\ h[i].ret = Some(TRUE)
          /\ Len(h[i].sdkCalls) = 1
          /\ h[i].sdkCalls[1].fn = "createCoin"
          /\ h[i].hasCallback
             => /\ Len(h[i].cb) = 1
                /\ h[i].cb[1].content = [transactionHash |-> h[i].result[1].hash,
                                         coinAddress |-> h[i].result[1].address,
                                         deploymentDetails |-> h[i].result[1].deployment]

ValidPolymarketCredentials ==
    /\ \A n \in PolyNames : env[n] # None /\ env[n][1] # ""
    /\ isHex(env["WALLET_PRIVATE_KEY"][1])

\* the calls of a GET_POLYMARKET_EVENTS run in which every step succeeds:
\* bootstrap, state, extraction, the tool's entry points, response generation
EventsRunTrace(i) ==
    <<"getClients">>
    \o (IF h[i].stateGiven THEN <<>> ELSE <<"composeState">>)
    \o <<"updateRecentMessageState", "generateObject">>
    \o [c \in 1..Len(h[i].sdkCalls) |-> h[i].sdkCalls[c].fn]
    \o <<"generateText">>

\* C19: GET_POLYMARKET_EVENTS with valid credentials, in a run where no step
\* fails: the handler bootstraps the client, selects the market/event tool,
\* calls it, generates a response, invokes the callback with the generated
\* text and the raw tool result as content, and returns true.
C19_EventsEndToEnd ==
    \A i \in Invocations :
        (h[i].action = "GET_POLYMARKET_EVENTS" /\ Succeeded(i))
        => LET tools == h[i].clients[1].tools
               matching == {k \in 1..Len(tools) : NameMatches(tools[k])}
               selected == CHOOSE k \in matching : \A j \in matching : k <= j
           IN  /\ ValidPolymarketCredentials
               /\ matching # {}
               /\ h[i].trace = EventsRunTrace(i)
               /\ (tools[selected].execute \/ tools[selected].call) => h[i].sdkCalls # <<>>
               /\ \A c \in 1..Len(h[i].sdkCalls) :
                    /\ h[i].sdkCalls[c].tool = tools[selected].name
                    /\ h[i].sdkCalls[c].params = h[i].params[1]
               /\ h[i].ret = Some(TRUE)
               /\ h[i].escaped = None
               /\ IF h[i].hasCallback
                  THEN /\ Len(h[i].cb) = 1
                       /\ h[i].cb[1].text \in ResponseTexts
                       /\ h[i].cb[1].content = h[i].result[1]
                  ELSE h[i].cb = <<>>

C19_Witness ==
    /\ h[1].action = "GET_POLYMARKET_EVENTS"
    /\ Succeeded(1)
    /\ h[1].hasCallback
    /\ h[1].sdkCalls = <<[fn |-> "execute", tool |-> Some("Get_Polymarket_EVENTS"),
                          params |-> [query |-> Some("election")]]>>
    /\ h[1].cb[1].text = "Your coin is live."
    /\ h[1].cb[1].content.text = "\"events\":[1,2]"
    /\ h[1].ret = Some(TRUE)


\* invocation i is a CREATE_COIN run that has made its deployment call
CoinDeployed(i) == h[i].action = "CREATE_COIN" /\ h[i].sdkCalls # <<>>

\* C20: CREATE_COIN currency choice: the deployment currency passed to the SDK
\* is ZORA exactly when the extracted currency is "ZORA"; for "ETH" and for an
\* absent currency it is ETH (ETH is the default).
C20_CurrencyChoice ==
    \A i \in Invocations :
        CoinDeployed(i)
        => LET extractedCurrency == h[i].extracted[1].currency
               passed == h[i].sdkCalls[1].params.currency
           IN  /\ passed \in {"DeployCurrency.ZORA", "DeployCurrency.ETH"}
               /\ passed = "DeployCurrency.ZORA" <=> extractedCurrency = Some("ZORA")
               /\ extractedCurrency \in {None, Some("ETH")} => passed = "DeployCurrency.ETH"

C20_Witness ==
    /\ CoinDeployed(1)
    /\ h[1].extracted[1].currency = None
    /\ h[1].sdkCalls[1].params.currency = "DeployCurrency.ETH"
    /\ h[1].result # None


IsErrorPayload(p) == "error" \in DOMAIN p.content

\* C21: in every handler invocation with a callback, the callback is invoked
\* exactly once over the whole invocation: either once with the success
\* payload, in which case the handler returns true, or once with the error
\* payload, in which case it returns false; never both and never twice, also
\* when the callback itself raises during the success call; with no callback
\* the handler still resolves to a boolean.  Stated for the runs in which the
\* callback does not raise while it is handed an error payload.
C21_CallbackExactlyOnce ==
    \A i \in Invocations :
        (Finished(i) /\ "errorCallback" \notin Range(h[i].raisedAt))
        => IF h[i].hasCallback
           THEN /\ Len(h[i].cb) = 1
                /\ h[i].escaped = None
                /\ h[i].ret = Some(~IsErrorPayload(h[i].cb[1]))
           ELSE /\ h[i].cb = <<>>
                /\ h[i].escaped = None
                /\ h[i].ret \in {Some(TRUE), Some(FALSE)}

\* the same for the runs in which the callback returns normally each time
C21_WhenCallbackReturns ==
    \A i \in Invocations :
        (Finished(i) /\ Range(h[i].raisedAt) \cap {"successCallback", "errorCallback"} = {})
        => IF h[i].hasCallback
           THEN /\ Len(h[i].cb) = 1
                /\ h[i].escaped = None
                /\ h[i].ret = Some(~IsErrorPayload(h[i].cb[1]))
           ELSE /\ h[i].cb = <<>>
                /\ h[i].escaped = None
                /\ h[i].ret \in {Some(TRUE), Some(FALSE)}


\* the step of a handler an external call belongs to, in the order of the steps
StepRank(call) ==
    CASE call = "getClients" -> 1
      [] call \in {"composeState", "updateRecentMessageState"} -> 2
      [] call = "generateObject" -> 3
      [] call = "fetch" -> 4
      [] call \in {"createCoin", "tradeCoin", "execute", "call"} -> 5
      [] call = "generateText" -> 6

Called(i, call) == call \in Range(h[i].trace)

SdkCallMade(i) == \E c \in {"createCoin", "tradeCoin", "execute", "call"} : Called(i, c)

HasSuccessPayload(i) == \E k \in 1..Len(h[i].cb) : ~IsErrorPayload(h[i].cb[k])

\* C22: within one handler invocation the steps are strictly ordered: client
\* bootstrap completes before state composition and refresh, which complete
\* before parameter extraction, which completes before metadata-URI resolution
\* (CREATE_COIN) and the SDK or tool call, which completes before response
\* generation, which completes before the success callback; the success
\* callback is never invoked before the SDK call has returned.
C22_StepsOrdered ==
    \A i \in Invocations :
        /\ \A a, b \in 1..Len(h[i].trace) :
             a < b => StepRank(h[i].trace[a]) <= StepRank(h[i].trace[b])
        /\ \A k \in 1..Len(h[i].trace) :
             (h[i].trace[k] = "composeState" /\ k < Len(h[i].trace))
             => h[i].trace[k + 1] = "updateRecentMessageState"
        /\ h[i].trace # <<>> => h[i].trace[1] = "getClients"
        /\ (Called(i, "composeState") \/ Called(i, "updateRecentMessageState"))
           => h[i].clients # None
        /\ Called(i, "generateObject") => Called(i, "updateRecentMessageState")
        /\ (Called(i, "fetch") \/ SdkCallMade(i)) => h[i].params # None
        /\ (h[i].resolvedUri # None \/ h[i].pinRequests # <<>>)
           => h[i].action = "CREATE_COIN" /\ h[i].params # None
        /\ Called(i, "createCoin") => h[i].resolvedUri # None
        /\ Called(i, "generateText") => h[i].result # None /\ h[i].prompt # None
        /\ h[i].result # None => h[i].params # None
        /\ HasSuccessPayload(i)
           => /\ Called(i, "generateText")
              /\ h[i].result # None
              /\ h[i].trace[Len(h[i].trace)] = "generateText"
              /\ ~IsErrorPayload(h[i].cb[1])

C22_Witness ==
    /\ h[1].action = "CREATE_COIN"
    /\ h[1].trace = <<"getClients", "composeState", "updateRecentMessageState",
                      "generateObject", "fetch", "createCoin", "generateText">>
    /\ HasSuccessPayload(1)
    /\ h[1].ret = Some(TRUE)


\* C23: GET_POLYMARKET_EVENTS performs one external operation per invocation:
\* the selected tool is invoked at most once, through execute or through call
\* but not both, whatever value the tool returns (an empty, zero, false or
\* null result included).
C23_ToolInvokedAtMostOnce ==
    \A i \in Invocations :
        h[i].action = "GET_POLYMARKET_EVENTS"
        => /\ Len(h[i].sdkCalls) <= 1
           /\ ~(Called(i, "execute") /\ Called(i, "call"))

\* what the handler does keep: each entry point of the selected tool is invoked
\* at most once, and call comes second only after execute
C23_EachEntryPointAtMostOnce ==
    \A i \in Invocations :
        h[i].action = "GET_POLYMARKET_EVENTS"
        => \/ h[i].sdkCalls = <<>>
           \/ /\ Len(h[i].sdkCalls) = 1
              /\ h[i].sdkCalls[1].fn \in {"execute", "call"}
           \/ /\ Len(h[i].sdkCalls) = 2
              /\ h[i].sdkCalls[1].fn = "execute"
              /\ h[i].sdkCalls[2].fn = "call"
              /\ h[i].sdkCalls[1].tool = h[i].sdkCalls[2].tool


IsCoinAction(i) == h[i].action \in {"CREATE_COIN", "TRADE_COIN"}

SdkFn(i) == IF h[i].action = "CREATE_COIN" THEN "createCoin" ELSE "tradeCoin"

\* C24: CREATE_COIN and TRADE_COIN submit at most one SDK operation per
\* invocation: the createCoin or tradeCoin call is made at most once, it is not
\* made again after it failed, and it is not made again after it succeeded.
C24_AtMostOneSdkOperation ==
    \A i \in Invocations :
        IsCoinAction(i)
        => /\ Len(h[i].sdkCalls) <= 1
           /\ Occurrences(h[i].trace, SdkFn(i)) = Len(h[i].sdkCalls)
           /\ \A k \in 1..Len(h[i].sdkCalls) : h[i].sdkCalls[k].fn = SdkFn(i)
           /\ h[i].result # None => Len(h[i].sdkCalls) = 1
           /\ "sdk" \in Range(h[i].raisedAt) => h[i].result = None

\* a createCoin call that rejected: the handler is done, one call was made
C24_Witness ==
    /\ Finished(1)
    /\ h[1].action = "CREATE_COIN"
    /\ h[1].raisedAt = <<"sdk">>
    /\ Len(h[1].sdkCalls) = 1
    /\ h[1].ret = Some(FALSE)


Last(seq) == seq[Len(seq)]

\* the response step raised and the error callback, if any, returned
ResponseFailed(i) == Finished(i) /\ h[i].raisedAt = <<"respond">>

\* C25: in CREATE_COIN and TRADE_COIN, when the SDK operation succeeded and
\* response generation then fails, the handler reports failure (the callback
\* gets the error payload and the handler returns false) although the on-chain
\* operation was submitted, and it makes no rollback or compensating call: the
\* one SDK call stays the only one and nothing but generateText follows it.
C25_FailureAfterSubmission ==
    \A i \in Invocations :
        (IsCoinAction(i) /\ ResponseFailed(i))
        => /\ h[i].result # None
           /\ Len(h[i].sdkCalls) = 1
           /\ h[i].sdkCalls[1].fn = SdkFn(i)
           /\ Occurrences(h[i].trace, SdkFn(i)) = 1
           /\ \A k \in 1..Len(h[i].trace) :
                 (\E j \in 1..(k - 1) : h[i].trace[j] = SdkFn(i))
                 => h[i].trace[k] = "generateText" /\ k = Len(h[i].trace)
           /\ h[i].ret = Some(FALSE)
           /\ h[i].escaped = None
           /\ IF h[i].hasCallback
              THEN Len(h[i].cb) = 1 /\ IsErrorPayload(h[i].cb[1])
              ELSE h[i].cb = <<>>

\* a trade was submitted, generateText rejected, the callback got the error
C25_Witness ==
    /\ h[1].action = "TRADE_COIN"
    /\ ResponseFailed(1)
    /\ Last(h[1].trace) = "generateText"
    /\ Len(h[1].sdkCalls) = 1
    /\ h[1].result # None /\ h[1].result[1].hash = Some("0xtx3")
    /\ h[1].cb = <<errorPayload("TRADE_COIN", Error("boom"))>>
    /\ h[1].ret = Some(FALSE)


\* metadata resolution raised and the error callback, if any, returned
UriFailed(i) == Finished(i) /\ h[i].action = "CREATE_COIN" /\ h[i].raisedAt = <<"uri">>

MetadataFailureMessages ==
    {MissingPinataMessage,
     "Pinata pinJSONToIPFS failed: 401 Unauthorized bad token",
     "Pinata pinJSONToIPFS failed: 500 Internal Server Error ",
     "Pinata response missing IpfsHash",
     JsonSyntaxError.message,
     "network down"}

\* C26: in CREATE_COIN every failure of metadata resolution (no pinning
\* credential, a non-success HTTP response, a success response without
\* IpfsHash) fails the whole action: createCoin is never invoked, the callback
\* receives the error payload and the handler returns false. createCoin is
\* invoked only with a URI that resolution returned.
C26_MetadataFailureFailsAction ==
    \A i \in Invocations :
        /\ UriFailed(i)
           => /\ h[i].sdkCalls = <<>>
              /\ ~Called(i, "createCoin")
              /\ ~Called(i, "generateText")
              /\ h[i].resolvedUri = None
              /\ h[i].result = None
              /\ h[i].ret = Some(FALSE)
              /\ h[i].escaped = None
              /\ IF h[i].hasCallback
                 THEN /\ Len(h[i].cb) = 1
                      /\ \E m \in MetadataFailureMessages :
                            h[i].cb[1] = errorPayload("CREATE_COIN", Error(m))
                 ELSE h[i].cb = <<>>
        /\ (h[i].action = "CREATE_COIN" /\ Called(i, "createCoin"))
           => /\ looksLikeUri(h[i].resolvedUri)
              /\ "uri" \notin Range(h[i].raisedAt)

\* the pin request succeeded without IpfsHash and the action failed
C26_Witness ==
    /\ UriFailed(1)
    /\ Len(h[1].pinRequests) = 1
    /\ h[1].cb = <<errorPayload("CREATE_COIN", Error("Pinata response missing IpfsHash"))>>
    /\ h[1].ret = Some(FALSE)

\* no pinning credential: the action failed without a pin request
C26_WitnessNoCredential ==
    /\ UriFailed(1)
    /\ h[1].pinRequests = <<>>
    /\ h[1].cb = <<errorPayload("CREATE_COIN", Error(MissingPinataMessage))>>

\* a non-success HTTP response: the action failed
C26_WitnessHttpFailure ==
    /\ UriFailed(1)
    /\ h[1].cb = <<errorPayload("CREATE_COIN",
                                Error("Pinata pinJSONToIPFS failed: 401 Unauthorized bad token"))>>


\* the bootstrap raised and the error callback, if any, returned
BootstrapFailed(i) == Finished(i) /\ h[i].raisedAt = <<"bootstrap">>

\* err is an error the bootstrap of the action can raise under the configuration
IsBootstrapError(action, err) ==
    IF action = "GET_POLYMARKET_EVENTS"
    THEN \E t \in OnChainToolsOutcomes :
            LET boot == getPolymarketClient(env, t)
            IN  boot.threw /\ boot.error[1] = err
    ELSE getZoraClients(env).threw /\ getZoraClients(env).error[1] = err

BootstrapErrors ==
    {Error(ZoraMissingMessage), InvalidKeyError, Error(PolyApiMissingMessage),
     Error(PolyWalletMissingMessage), WrapPolymarket(InvalidKeyError)}
        \cup {WrapPolymarket(x) : x \in StepErrors}

\* C27: when the bootstrap fails inside a handler (the configuration is gone,
\* or construction raises), the handler makes no state-composition,
\* parameter-extraction, pin, SDK or text-generation call: it only invokes the
\* error callback with the bootstrap's error message and returns false.
C27_BootstrapFailureStopsHandler ==
    \A i \in Invocations :
        BootstrapFailed(i)
        => /\ h[i].trace = <<"getClients">>
           /\ h[i].sdkCalls = <<>>
           /\ h[i].pinRequests = <<>>
           /\ h[i].clients = None
           /\ h[i].params = None
           /\ h[i].resolvedUri = None
           /\ h[i].result = None
           /\ h[i].prompt = None
           /\ h[i].ret = Some(FALSE)
           /\ h[i].escaped = None
           /\ IF h[i].hasCallback
              THEN /\ Len(h[i].cb) = 1
                   /\ \E err \in BootstrapErrors :
                         /\ IsBootstrapError(h[i].action, err)
                         /\ h[i].cb[1] = errorPayload(h[i].action, err)
              ELSE h[i].cb = <<>>

\* no configuration at all: TRADE_COIN ends with the credentials message
C27_Witness ==
    /\ env = Unset
    /\ h[1].action = "TRADE_COIN"
    /\ BootstrapFailed(1)
    /\ h[1].trace = <<"getClients">>
    /\ h[1].cb = <<errorPayload("TRADE_COIN", Error(ZoraMissingMessage))>>
    /\ h[1].ret = Some(FALSE)

\* construction raises on the private key: CREATE_COIN ends with that message
C27_WitnessConstruction ==
    /\ env["ZORA_PRIVATE_KEY"] = Some("not-a-key")
    /\ h[1].action = "CREATE_COIN"
    /\ BootstrapFailed(1)
    /\ h[1].cb = <<errorPayload("CREATE_COIN", InvalidKeyError)>>


StepMessages == {x.message : x \in StepErrors}

\* the messages of the errors that can be raised at a step of invocation i
RaisedMessages(i, step) ==
    CASE step = "bootstrap" ->
            {x.message : x \in {y \in BootstrapErrors : IsBootstrapError(h[i].action, y)}}
      [] step \in {"state", "extract"} -> StepMessages
      [] step = "uri" -> MetadataFailureMessages
      [] step = "sdk" ->
            StepMessages \cup {ToolNotFoundMessage}
                \cup {InvalidDecimalError(v).message : v \in {"1.5 ETH"}}
      [] step = "respond" -> StepMessages \cup {BigIntTypeError.message}
      [] step = "successCallback" -> {CallbackError.message}

\* C28: every error payload has the same shape: its text is the action's fixed
\* prefix ("Error creating coin: ", "Error trading coin: ",
\* "Error executing GET_POLYMARKET_EVENTS: ") followed by the error message, and
\* content.error is that same message verbatim: the message of the Error
\* raised, or the string form of a raised value that is not an Error.
C28_ErrorPayloadShape ==
    \A i \in Invocations :
        \A k \in 1..Len(h[i].cb) :
            IsErrorPayload(h[i].cb[k])
            => /\ DOMAIN h[i].cb[k] = {"text", "content"}
               /\ DOMAIN h[i].cb[k].content = {"error"}
               /\ h[i].action = "CREATE_COIN"
                  => h[i].cb[k].text = "Error creating coin: " \o h[i].cb[k].content.error
               /\ h[i].action = "TRADE_COIN"
                  => h[i].cb[k].text = "Error trading coin: " \o h[i].cb[k].content.error
               /\ h[i].action = "GET_POLYMARKET_EVENTS"
                  => h[i].cb[k].text = "Error executing GET_POLYMARKET_EVENTS: "
                                          \o h[i].cb[k].content.error
               /\ h[i].raisedAt # <<>>
               /\ h[i].cb[k].content.error \in RaisedMessages(i, h[i].raisedAt[1])
               /\ k = Len(h[i].cb)

\* a tool rejected with a value that is not an Error: its string form is reported
C28_Witness ==
    /\ h[1].action = "GET_POLYMARKET_EVENTS"
    /\ h[1].raisedAt = <<"sdk">>
    /\ h[1].cb = <<[text |-> "Error executing GET_POLYMARKET_EVENTS: rate limited",
                    content |-> [error |-> "rate limited"]]>>
    /\ h[1].ret = Some(FALSE)

\* createCoin rejected with an Error: its message is reported
C28_WitnessError ==
    /\ h[1].action = "CREATE_COIN"
    /\ h[1].raisedAt = <<"sdk">>
    /\ h[1].cb = <<[text |-> "Error creating coin: boom", content |-> [error |-> "boom"]]>>

\* tradeCoin rejected with an Error whose message is empty: the text is the prefix
C28_WitnessEmptyMessage ==
    /\ h[1].action = "TRADE_COIN"
    /\ h[1].raisedAt = <<"sdk">>
    /\ h[1].cb = <<[text |-> "Error trading coin: ", content |-> [error |-> ""]]>>


\* the configuration the bootstrap of the action requires is not all there
ConfigurationRemoved(action) ==
    IF action = "GET_POLYMARKET_EVENTS"
    THEN PolyApiMissing(env) \/ PolyWalletMissing(env)
    ELSE ZoraCredentialsMissing(env["ZORA_RPC_URL"], env["ZORA_PRIVATE_KEY"])

RemovedMessage(action) ==
    IF action = "GET_POLYMARKET_EVENTS"
    THEN IF PolyApiMissing(env) THEN PolyApiMissingMessage ELSE PolyWalletMissingMessage
    ELSE ZoraMissingMessage

\* C29: the action list is computed once at plugin load and stays as it is:
\* no later change of configuration adds, removes or reorders actions.  A
\* handler of a loaded action that is invoked after its configuration has been
\* removed is still there and fails at its bootstrap through the error
\* callback and a false return; it does not throw.
C29_ActionListFixedAtLoad ==
    [][/\ zoraLoad # None => zoraLoad' = zoraLoad
       /\ polyLoad # None => polyLoad' = polyLoad
       /\ \A i \in {1} :
            (/\ h[i].pc = "bootstrap"
             /\ h'[i].pc # "bootstrap"
             /\ ConfigurationRemoved(h[i].action)
             /\ "errorCallback" \notin Range(h'[i].raisedAt))
            => /\ h[i].action \in RegisteredActions
               /\ h'[i].pc = "done"
               /\ h'[i].raisedAt = <<"bootstrap">>
               /\ h'[i].escaped = None
               /\ h'[i].ret = Some(FALSE)
               /\ h'[i].sdkCalls = <<>>
               /\ IF h[i].hasCallback
                  THEN h'[i].cb = <<[text |-> ErrorPrefix(h[i].action) \o RemovedMessage(h[i].action),
                                     content |-> [error |-> RemovedMessage(h[i].action)]]>>
                  ELSE h'[i].cb = <<>>]_vars

\* CREATE_COIN was loaded, the configuration was removed afterwards, and its
\* handler failed through the callback
C29_Witness ==
    /\ env = Unset
    /\ zoraLoad # None /\ zoraLoad[1].value = Some(<<"CREATE_COIN", "TRADE_COIN">>)
    /\ polyLoad # None /\ polyLoad[1].value = Some(<<"GET_POLYMARKET_EVENTS">>)
    /\ h[1].action = "CREATE_COIN"
    /\ Finished(1)
    /\ h[1].cb = <<errorPayload("CREATE_COIN", Error(ZoraMissingMessage))>>
    /\ h[1].ret = Some(FALSE)

\* nothing was loaded for want of configuration, and the configuration was
\* supplied afterwards: the lists are still empty
C29_WitnessStillEmpty ==
    /\ env # Unset
    /\ ~ConfigurationRemoved("CREATE_COIN")
    /\ ~ConfigurationRemoved("GET_POLYMARKET_EVENTS")
    /\ zoraLoad # None /\ zoraLoad[1].value = Some(<<>>)
    /\ polyLoad # None /\ polyLoad[1].value = Some(<<>>)


\* getZoraClients stopped at its presence validation
ZoraPresenceRejected ==
    zoraBoot[1].threw /\ zoraBoot[1].error[1] = Error(ZoraMissingMessage)

\* getPolymarketClient stopped at one of its two presence validations
PolyPresenceRejected ==
    /\ polyBoot[1].threw
    /\ polyBoot[1].error[1] \in {Error(PolyApiMissingMessage), Error(PolyWalletMissingMessage)}

\* C30: load-time gating agrees with bootstrap validation: under every
\* configuration a plugin's action list is non-empty at load exactly when the
\* presence validation of its bootstrap function passes (whether or not the
\* construction that follows the validation succeeds).
C30_GatingAgreesWithValidation ==
    /\ (zoraLoad # None /\ zoraBoot # None)
       => /\ (zoraLoad[1].value[1] # <<>>) <=> ~ZoraPresenceRejected
          /\ zoraLoad[1].value[1] \in {<<>>, getZoraActions}
    /\ (polyLoad # None /\ polyBoot # None)
       => /\ (polyLoad[1].value[1] # <<>>) <=> ~PolyPresenceRejected
          /\ polyLoad[1].value[1] \in {<<>>, getPolymarketActions}

\* Polymarket is configured and Zora is not: one list is there, the other is
\* empty, and the bootstraps agree
C30_Witness ==
    /\ zoraLoad # None /\ zoraBoot # None
    /\ polyLoad # None /\ polyBoot # None
    /\ zoraLoad[1].value[1] = <<>>
    /\ ZoraPresenceRejected
    /\ polyLoad[1].value[1] = <<"GET_POLYMARKET_EVENTS">>
    /\ ~polyBoot[1].threw

\* the private key is there but is no key: the list is loaded, the bootstrap
\* passes its presence validation and fails at construction
C30_WitnessConstructionFails ==
    /\ zoraLoad # None /\ zoraBoot # None
    /\ zoraLoad[1].value[1] = <<"CREATE_COIN", "TRADE_COIN">>
    /\ zoraBoot[1].threw
    /\ zoraBoot[1].error[1] = InvalidKeyError

\* only the wallet configuration is missing: the list is empty and the
\* bootstrap is rejected by its second validation
C30_WitnessWalletMissing ==
    /\ polyLoad # None /\ polyBoot # None
    /\ ~PolyApiMissing(env)
    /\ polyLoad[1].value[1] = <<>>
    /\ polyBoot[1].threw
    /\ polyBoot[1].error[1] = Error(PolyWalletMissingMessage)

====
